---- MODULE Spec2Model ----
(***************************************************************************)
(* A model of grafana/k6provider: the directory lock (dirLock / fileLock), *)
(* the LRU pruner of the binary cache, the downloader and the Provider's   *)
(* GetBinary state machine.                                                *)
(*                                                                         *)
(* The module holds several specifications over the same variables; each   *)
(* one moves only its own component and leaves the others as constructed:  *)
(*   SpecLock      lock / unlock on independent lock handles               *)
(*   SpecProvider  GetBinary calls made one after the other                *)
(*   SpecRace      GetBinary calls racing on one artifact                  *)
(*   SpecDownload  GetBinary calls under each configured retry cap         *)
(*   SpecPrune     concurrent prune / touch calls and the passing of time  *)
(*   SpecResolve   GetBinary calls against a failing build service         *)
(*   SpecBackground GetBinary calls with pruning enabled and the touch and *)
(*                 prune goroutines they start                             *)
(*   SpecProcesses prune calls in several processes sharing the cache      *)
(*   SpecPruneFaults prune calls over entries whose stat or removal fails  *)
(*   SpecLockExit  lock / unlock in several processes that may terminate   *)
(*   SpecPruneNonPositive prune calls with a high-water-mark of 0 or less  *)
(* In the other provider specifications pruning is disabled (the default), *)
(* where the touch and prune goroutines GetBinary starts do nothing; they  *)
(* are counted when started.                                               *)
(***************************************************************************)
EXTENDS Integers, Sequences, FiniteSets, TLC

(***************************************************************************)
(* Bounds of the model.                                                    *)
(***************************************************************************)
\* lock handles (newFileLock calls)
NHandles == 3
\* existing directories a lock handle can be created on
NDirs == 2
\* artifact IDs the build service knows; artifact i has a binary of i blocks
NIDs == 3
\* GetBinary calls, each run once
NCalls == 2
\* failing attempts a download source makes before it serves the binary
MaxSrcFails == 4
\* alterations of cached files made from outside the program
MaxCorrupt == 1
\* ticks of the clock
MaxTime == 2
\* concurrent prune() callers
NPruners == 2
\* touches of cached binaries pending when the pruner starts
MaxTouch == 2
\* eviction passes recorded in one run
MaxPasses == 2
\* errors wrapped one in the other in an error of the build service
MaxChain == 3
\* successful tryLock calls on one handle that are told apart
MaxRelock == 2

(***************************************************************************)
(* Program constants.                                                      *)
(***************************************************************************)
\* dirLock.fd of a handle that holds no descriptor (fd: -1); the Windows
\* backend uses syscall.InvalidHandle in the same role
NoFd == -1

\* size in bytes of one block of a binary: files are read, written and
\* measured in whole blocks
BlockBytes == 10
\* pruner.lastPrune before the first pass: the zero time.Time
ZeroTime == -1
\* defaultPruneInterval (time.Hour), in ticks of the clock
DefaultPruneInterval == 2
\* the downloader's built-in attempt cap, used for a non-positive Retries
DefaultRetries == 3

VARIABLES
    \* ---- directory lock ------------------------------------------------
    backend,    \* "posix" (dirLock, flock) or "windows" (fileLock, LockFile)
    hdir,       \* hdir[h]: the directory handle h was created on, 0: a
                \* directory that does not exist
    fd,         \* fd[h]: dirLock.fd / fileLock.handle, NoFd when not held
    osLock,     \* osLock[d]: the handle whose open descriptor owns the OS
                \* advisory lock on <d>/k6provider.lock, 0 when unlocked
    lockRet,    \* lockRet[h]: what the last lock/unlock call on h returned
    leaked,     \* leaked[h]: a descriptor opened by a lock call on h is
                \* still open although h does not record it
    lastCall,   \* lastCall[h]: the last call made on h, see NoCall
    hproc,      \* hproc[h]: the OS process handle h lives in
    exited,     \* the OS processes that have terminated
    \* ---- cache directory (<BinDir>) -------------------------------------
    edir,       \* the artifact IDs whose entry directory <BinDir>/<ID> exists
    plain,      \* the names in <BinDir> that are files, not directories
    link,       \* link[id]: the inode linked as <BinDir>/<ID>/k6, 0: no file
    data,       \* data[i]: the blocks of inode i
    mtime,      \* mtime[i]: modification time of inode i
    now,        \* the clock (time.Now())
    ncorrupt,   \* alterations made from outside so far
    \* ---- Provider ------------------------------------------------------
    retries,    \* retries.cfg: DownloadConfig.Retries as configured,
                \* retries.cap: the downloader's attempt cap
    call,       \* call[c]: the position and locals of GetBinary call c
    bgTouch,    \* bgTouch[id]: `go p.pruner.Touch(binPath)` not yet run
    bgPrune,    \* `go p.pruner.Prune()` goroutines not yet run
    altered,    \* altered[id]: the last alteration of the file of id from
                \* outside, see Unaltered
    \* ---- pruner --------------------------------------------------------
    hwm,        \* pruner.hwm (Config.HighWaterMark)
    pruneInterval, \* pruner.pruneInterval
    procOf,     \* procOf[p]: the OS process prune() call p is made in; each
                \* process has its own pruner over the shared cache directory
    lastPrune,  \* lastPrune[q]: pruner.lastPrune in process q
    pruneLock,  \* pruneLock[q]: pruner.pruneLock in process q: 0 free,
                \* else the prune() call holding it
    pr,         \* pr[p]: the position and locals of prune() call p
    passes,     \* the times at which eviction passes started, in order
    touches     \* the touches that set a modification time, in order:
                \* the entry touched and the passes begun before the touch

lockVars == <<backend, hdir, fd, osLock, lockRet, leaked, lastCall, hproc,
              exited>>
fsVars == <<edir, plain, link, data, mtime, now, ncorrupt>>
provVars == <<retries, call, bgTouch, bgPrune, altered>>
pruneVars == <<hwm, pruneInterval, procOf, lastPrune, pruneLock, pr, passes,
               touches>>

vars == <<backend, hdir, fd, osLock, lockRet, leaked, lastCall, hproc, exited,
          edir, plain, link, data, mtime, now, ncorrupt,
          retries, call, bgTouch, bgPrune, altered,
          hwm, pruneInterval, procOf, lastPrune, pruneLock, pr, passes, touches>>



(***************************************************************************)
(* Cache directory: entries, files and their content                       *)
(***************************************************************************)
Handles == 1..NHandles
Dirs == 1..NDirs
\* a path whose directory does not exist ("/path/to/non/existing/dir")
MissingDir == 0
\* a path that holds a NUL byte: no directory has it, and
\* syscall.UTF16PtrFromString refuses to encode it
NulPath == -2
IDs == 1..NIDs
Calls == 1..NCalls
Pruners == 1..NPruners
\* OS processes: at most one for every prune() call
Procs == 1..NPruners
\* the process of a program that runs alone
OneProc == CHOOSE q \in Procs : \A r \in Procs : q <= r
\* times before the program starts, one for every entry of an inherited cache
Past == 0..(NIDs - 1)
\* an inode for every file that can be linked or held open at one time
Inodes == 1..(NIDs + NCalls)

\* the binary the build service built for artifact id, stored at artifact.URL
Body(id) == [k \in 1..id |-> k]

\* what a source that serves damaged content sends for artifact id
BadBody(id) == [k \in 1..id |-> IF k = 1 THEN 0 ELSE k]

\* sha256 over the content, fmt.Sprintf("%x", hash.Sum(nil)): an injective
\* encoding of the block sequence (a collision-free digest)
RECURSIVE Digest(_)
Digest(s) ==
    IF s = <<>> THEN 0
    ELSE (Head(s) + 1) + (NIDs + 2) * Digest(Tail(s))

\* Artifact.Checksum as the build service reports it
Checksum(id) == Digest(Body(id))

\* binInfo.Size()
Size(i) == BlockBytes * Len(data[i])

\* the inodes a path or an open descriptor of a call refers to
Live(lnk, cl) ==
    {lnk[id] : id \in IDs} \cup {cl[c].wino : c \in Calls}
        \cup {cl[c].rino : c \in Calls}

\* the file system drops the content of an inode once nothing refers to it
Reclaim(dat, lnk, cl) ==
    [i \in Inodes |-> IF i \in Live(lnk, cl) THEN dat[i] ELSE <<>>]

ReclaimTime(mt, lnk, cl) ==
    [i \in Inodes |-> IF i \in Live(lnk, cl) THEN mt[i] ELSE 0]

\* the inode a newly created file gets
FreeInode == CHOOSE i \in Inodes : i \notin Live(link, call) /\
                 \A j \in Inodes : j \notin Live(link, call) => i <= j

\* write block b at block offset off of content s (os.File.Write at the
\* descriptor's offset): overwrites in place, extends at the end
WriteAt(s, off, b) ==
    IF off < Len(s) THEN [s EXCEPT ![off + 1] = b] ELSE Append(s, b)

\* an empty cache directory
InitCacheEmpty ==
    /\ edir = {}
    /\ plain = {}
    /\ link = [id \in IDs |-> 0]
    /\ data = [i \in Inodes |-> <<>>]
    /\ mtime = [i \in Inodes |-> 0]
    /\ now = NIDs
    /\ ncorrupt = 0

\* a cache directory left by earlier runs: some artifacts are cached, each
\* with the binary of its artifact, last used at some earlier time
InitCachePopulated ==
    /\ edir \in SUBSET IDs
    /\ plain = {}
    /\ link = [id \in IDs |-> IF id \in edir THEN id ELSE 0]
    /\ data = [i \in Inodes |-> IF i \in edir THEN Body(i) ELSE <<>>]
    /\ mtime \in [Inodes -> Past]
    /\ \A i \in Inodes : i \notin edir => mtime[i] = 0
    /\ now = NIDs
    /\ ncorrupt = 0

(***************************************************************************)
(* Pruner                                                                  *)
(***************************************************************************)

\* NewProvider: the prune interval handed to NewPruner
PruneIntervalFor(cfgHwm, cfgInterval) ==
    IF cfgHwm > 0 /\ cfgInterval = 0 THEN DefaultPruneInterval ELSE cfgInterval

IdlePrune ==
    [pc |-> "idle", targets |-> <<>>, idx |-> 1, cacheSize |-> 0,
     errs |-> 0, ret |-> "none", why |-> "none", tried |-> <<>>,
     deleted |-> {}, pass |-> 0]

\* NewPruner(binDir, 0, 0): the default configuration, pruning disabled
InitPruner ==
    /\ hwm = 0
    /\ pruneInterval = PruneIntervalFor(0, 0)
    /\ procOf = [p \in Pruners |-> OneProc]
    /\ lastPrune = [q \in Procs |-> ZeroTime]
    /\ pruneLock = [q \in Procs |-> 0]
    /\ pr = [p \in Pruners |-> IdlePrune]
    /\ passes = <<>>
    /\ touches = <<>>

\* the high-water-marks and intervals the configurations of the model set
HwmChoices == {0, 1, 2 * BlockBytes + 5}
IntervalChoices == {0, 1}

InitPrunerConfigured ==
    /\ hwm \in HwmChoices
    /\ \E i \in IntervalChoices : pruneInterval = PruneIntervalFor(hwm, i)
    /\ procOf = [p \in Pruners |-> OneProc]
    /\ lastPrune = [q \in Procs |-> ZeroTime]
    /\ pruneLock = [q \in Procs |-> 0]
    /\ pr = [p \in Pruners |-> IdlePrune]
    /\ passes = <<>>
    /\ touches = <<>>

\* a pruner that takes no high-water-mark for "disabled"
DisabledNever == FALSE

\* p.hwm == 0: pruning is disabled
Disabled == hwm = 0

\* a cooldown check that never holds a call back
CooldownOff(q) == FALSE

\* a cooldown that a pass starts only when it succeeds
InCooldownAfterSuccess(q) ==
    /\ lastPrune[q] # ZeroTime /\ now - lastPrune[q] < pruneInterval
    /\ \A p \in Pruners :
         (procOf[p] = q /\ pr[p].pass = Len(passes)) =>
             pr[p].ret # "ErrPruningCache"

\* time.Since(p.lastPrune) < p.pruneInterval; the zero lastPrune lies
\* further back than any interval
InCooldown(q) ==
    lastPrune[q] # ZeroTime /\ now - lastPrune[q] < pruneInterval

\* a mutex that every caller gets
TryLockAlways(q) == TRUE

\* p.pruneLock.TryLock()
TryLock(q) == pruneLock[q] = 0

\* a comparison no cache size satisfies
NeverAtMark(size) == size < 0

\* cacheSize <= p.hwm
AtOrBelowMark(size) == size <= hwm

\* a comparison that puts the newest first
After(a, b) == a.ts > b.ts

\* the comparison handed to sort.Slice: timestamp.Before
Before(a, b) == a.ts < b.ts

\* every order sort.Slice (not stable) can leave the targets in
IsSorted(q) == \A i, j \in 1..Len(q) : i < j => ~Before(q[j], q[i])

Perms(S) ==
    {q \in [1..Cardinality(S) -> S] :
        \A i, j \in 1..Cardinality(S) : i # j => q[i] # q[j]}

SortTargets(S) == {q \in Perms(S) : IsSorted(q)}

RECURSIVE SumSizes(_)
SumSizes(S) ==
    IF S = {} THEN 0
    ELSE LET t == CHOOSE x \in S : TRUE IN t.size + SumSizes(S \ {t})

\* an enumeration that takes every entry directory for a candidate, the
\* ones without a binary with no size and the zero time
EnumerateAll ==
    {[id |-> id,
      size |-> IF link[id] = 0 THEN 0 * BlockBytes ELSE Size(link[id]),
      ts |-> IF link[id] = 0 THEN ZeroTime ELSE mtime[link[id]]] :
        id \in edir}

\* the name of the lock file newFileLock(<BinDir>) works on
LockName == NIDs + 1

\* os.ReadDir(p.dir): the names in the cache directory
ReadDir == edir \cup plain

\* binDir.IsDir()
IsDir(x) == x \in edir

\* a stat of the listed name in place of the binary below it
StatListed(x) == TRUE

\* os.Stat(<BinDir>/<name>/k6) succeeding
StatBinary(x) == x \in edir /\ link[x] # 0

\* binInfo.Size() and binInfo.ModTime() of what os.Stat found
StatSize(x) ==
    IF x \in edir /\ link[x] # 0 THEN Size(link[x]) ELSE 0 * BlockBytes
StatTime(x) ==
    IF x \in edir /\ link[x] # 0 THEN mtime[link[x]] ELSE ZeroTime

\* the loop over os.ReadDir(p.dir): the entry directories whose binary can
\* be stat'ed, with size and modification time
Enumerate ==
    {[id |-> x, size |-> StatSize(x), ts |-> StatTime(x)] :
        x \in {y \in ReadDir : IsDir(y) /\ StatBinary(y)}}

\* a pass that does not keep the errors of os.Stat
StatErrorsDropped == Cardinality({x \in edir : FALSE})

\* the entry directories that hold no binary: os.Stat fails on them
StatErrors == Cardinality({x \in ReadDir : IsDir(x) /\ ~StatBinary(x)})

\* os.RemoveAll(<BinDir>/<id>) succeeding
RemoveEntry(id) ==
    /\ edir' = edir \ {id}
    /\ plain' = plain \ {id}
    /\ link' = [x \in IDs |-> IF x = id THEN 0 ELSE link[x]]
    /\ data' = Reclaim(data, link', call)
    /\ mtime' = ReclaimTime(mtime, link', call)

\* pruner.prune up to the end of the enumeration
PruneBegin(p) ==
    /\ pr[p].pc \in {"idle", "done"}
    /\ Len(passes) < MaxPasses
    /\ UNCHANGED <<edir, plain, link, data, mtime, now, ncorrupt, hwm, pruneInterval,
                   procOf, touches>>
    /\ IF Disabled
       THEN /\ pr' = [pr EXCEPT ![p] =
                       [IdlePrune EXCEPT !.pc = "done", !.ret = "nil",
                                         !.why = "disabled"]]
            /\ UNCHANGED <<lastPrune, pruneLock, passes>>
       ELSE IF ~TryLock(procOf[p])
       THEN \* if a lock exists, another prune is in progress
            /\ pr' = [pr EXCEPT ![p] =
                       [IdlePrune EXCEPT !.pc = "done", !.ret = "nil",
                                         !.why = "busy"]]
            /\ UNCHANGED <<lastPrune, pruneLock, passes>>
       ELSE IF InCooldown(procOf[p])
       THEN /\ pr' = [pr EXCEPT ![p] =
                       [IdlePrune EXCEPT !.pc = "done", !.ret = "nil",
                                         !.why = "cooldown"]]
            /\ UNCHANGED <<lastPrune, pruneLock, passes>>
       ELSE /\ lastPrune' = [lastPrune EXCEPT ![procOf[p]] = now]
            /\ passes' = Append(passes, now)
            /\ \E readDirFails \in BOOLEAN :
                 IF readDirFails
                 THEN /\ pr' = [pr EXCEPT ![p] =
                                 [IdlePrune EXCEPT !.pc = "done",
                                     !.ret = "ErrPruningCache",
                                     !.why = "readdir",
                                     !.pass = Len(passes) + 1]]
                      /\ UNCHANGED pruneLock
                 ELSE LET found == Enumerate
                          total == SumSizes(found)
                      IN IF AtOrBelowMark(total)
                         THEN /\ pr' = [pr EXCEPT ![p] =
                                         [IdlePrune EXCEPT !.pc = "done",
                                             !.ret = "nil", !.why = "below",
                                             !.pass = Len(passes) + 1,
                                             !.cacheSize = total,
                                             !.errs = StatErrors]]
                              /\ UNCHANGED pruneLock
                         ELSE IF found = {}
                         THEN \* no target to loop over: the final return
                              /\ pr' = [pr EXCEPT ![p] =
                                         [IdlePrune EXCEPT !.pc = "done",
                                             !.ret = "ErrPruningCache",
                                             !.why = "exhausted",
                                             !.pass = Len(passes) + 1,
                                             !.cacheSize = total,
                                             !.errs = StatErrors]]
                              /\ UNCHANGED pruneLock
                         ELSE /\ \E q \in SortTargets(found) :
                                   pr' = [pr EXCEPT ![p] =
                                           [IdlePrune EXCEPT !.pc = "deleting",
                                               !.pass = Len(passes) + 1,
                                               !.targets = q,
                                               !.cacheSize = total,
                                               !.errs = StatErrors]]
                              /\ pruneLock' = [pruneLock EXCEPT ![procOf[p]] = p]

\* one turn of the loop over pruneTargets, and the return that follows it
PruneDelete(p) ==
    /\ pr[p].pc = "deleting"
    /\ UNCHANGED <<now, ncorrupt, hwm, pruneInterval, procOf, lastPrune,
                   passes, touches>>
    /\ LET t == pr[p].targets[pr[p].idx]
           last == pr[p].idx = Len(pr[p].targets)
       IN \E removeFails \in BOOLEAN :
            IF removeFails
            THEN /\ UNCHANGED <<edir, plain, link, data, mtime>>
                 /\ pr' = [pr EXCEPT ![p].errs = @ + 1,
                                     ![p].idx = @ + 1,
                                     ![p].tried = Append(@, t.id),
                                     ![p].pc = IF last THEN "done" ELSE @,
                                     ![p].ret = IF last THEN "ErrPruningCache" ELSE @,
                                     ![p].why = IF last THEN "exhausted" ELSE @]
                 /\ pruneLock' = IF last
                                 THEN [pruneLock EXCEPT ![procOf[p]] = 0]
                                 ELSE pruneLock
            ELSE LET size == pr[p].cacheSize - t.size
                     stop == AtOrBelowMark(size) \/ last
                 IN /\ RemoveEntry(t.id)
                    /\ pr' = [pr EXCEPT ![p].cacheSize = size,
                                        ![p].idx = @ + 1,
                                        ![p].tried = Append(@, t.id),
                                        ![p].deleted = @ \cup {t.id},
                                        ![p].pc = IF stop THEN "done" ELSE @,
                                        ![p].ret = IF AtOrBelowMark(size) THEN "nil"
                                                   ELSE IF last THEN "ErrPruningCache"
                                                   ELSE @,
                                        ![p].why = IF AtOrBelowMark(size) THEN "reached"
                                                   ELSE IF last THEN "exhausted"
                                                   ELSE @]
                    /\ pruneLock' = IF stop
                                    THEN [pruneLock EXCEPT ![procOf[p]] = 0]
                                    ELSE pruneLock

\* a touch that sets the zero time.Time
TouchTimeZero == ZeroTime

\* time.Now() as handed to os.Chtimes
TouchTime == now

\* pruner.touch: with pruning enabled it waits for the mutex and sets the
\* times of the binary; the error of os.Chtimes (no such file) is dropped
Touch(id) ==
    /\ UNCHANGED <<edir, plain, link, data, now, ncorrupt, hwm, pruneInterval,
                   procOf, lastPrune, pruneLock, pr, passes>>
    /\ IF hwm > 0
       THEN /\ pruneLock[OneProc] = 0
            /\ IF link[id] # 0
               THEN /\ mtime' = [mtime EXCEPT ![link[id]] = TouchTime]
                    /\ touches' = Append(touches,
                                       [id |-> id, pass |-> Len(passes)])
               ELSE UNCHANGED <<mtime, touches>>
       ELSE UNCHANGED <<mtime, touches>>

\* time passes
Tick ==
    /\ now < NIDs + MaxTime
    /\ now' = now + 1
    /\ UNCHANGED <<edir, plain, link, data, mtime, ncorrupt, pruneVars>>

\* `go p.pruner.Touch(binPath)` gets to run
GoTouch(id) ==
    /\ bgTouch[id] > 0
    /\ bgTouch' = [bgTouch EXCEPT ![id] = @ - 1]
    /\ Touch(id)
    /\ UNCHANGED <<retries, call, bgPrune, altered>>

\* prune() and touch() called from several goroutines as time passes
NextPrune ==
    \/ \E p \in Pruners : PruneBegin(p) /\ UNCHANGED <<lockVars, provVars>>
    \/ \E p \in Pruners : PruneDelete(p) /\ UNCHANGED <<lockVars, provVars>>
    \/ \E id \in IDs : GoTouch(id) /\ UNCHANGED lockVars
    \/ Tick /\ UNCHANGED <<lockVars, provVars>>

(***************************************************************************)
(* Provider.GetBinary                                                      *)
(***************************************************************************)

\* the artifacts the build service of the model resolves dependencies to
Catalog == {NIDs - 1, NIDs}
\* the artifact the concurrent callers of the model ask for
Contended == {NIDs - 1}

\* a GetBinary call not yet made. Apart from the position and the locals
\* of the call the record keeps what an observer of the call notes:
\*   found   what was at binPath when the call stat'ed it
\*   fault   the I/O operation of the call that failed last for a reason
\*           outside the program, "none" when all succeeded
\*   ndl     the downloads the call started
\*   seen, absent   the file at the returned path when the call returned
IdleCall ==
    [pc |-> "idle", art |-> 0, rino |-> 0, rbuf |-> <<>>, wino |-> 0,
     woff |-> 0, att |-> 0, body |-> <<>>, dlerr |-> "nil",
     ret |-> "none", cached |-> FALSE, path |-> 0, sum |-> 0, url |-> 0,
     found |-> "none", fault |-> "none",
     seen |-> <<>>, absent |-> FALSE, ndl |-> 0,
     srvErr |-> <<>>, cause |-> <<>>, nbuild |-> 0, unclosed |-> 0]

\* the file of no artifact was altered from outside:
\*   at       the GetBinary calls started before the alteration, -1: none
\*   idle     no GetBinary call was under way
\*   fetched  the file held the binary of its artifact
Unaltered == [at |-> -1, idle |-> FALSE, fetched |-> FALSE]

\* a cap taken as configured
RetriesVerbatim(cfgRetries) == cfgRetries

\* the attempt cap the downloader works with: a non-positive Retries means
\* the built-in default
RetriesFor(cfgRetries) ==
    IF cfgRetries <= 0 THEN DefaultRetries ELSE cfgRetries

\* NewProvider(Config{}): default download configuration
InitProvider ==
    /\ retries = [cfg |-> 0, cap |-> RetriesFor(0)]
    /\ call = [c \in Calls |-> IdleCall]
    /\ bgTouch = [id \in IDs |-> 0]
    /\ bgPrune = 0
    /\ altered = [id \in IDs |-> Unaltered]

\* the file at <BinDir>/<id>/k6 as a caller finds it
PathAbsent(id) == link[id] = 0
PathContent(id) == IF link[id] = 0 THEN <<>> ELSE data[link[id]]

\* return K6Binary{}, err
Fail(c, kind) ==
    [call[c] EXCEPT !.pc = "done", !.ret = kind, !.rino = 0, !.wino = 0,
                    !.rbuf = <<>>, !.woff = 0, !.att = 0, !.body = <<>>,
                    !.dlerr = "nil"]

\* An error is the sequence of the errors wrapped one in the other, the
\* outermost first; <<>> is nil. The errors of the build service:
\* ErrInvalidParameters, a failed or rejected request, and plain reasons.
ErrKinds == {"ErrInvalidParameters", "ErrRequestFailed", "reason"}

RECURSIVE Chains(_)
Chains(n) ==
    IF n = 0 THEN {}
    ELSE [1..n -> ErrKinds] \cup Chains(n - 1)

\* every error p.buildSrv.Build can return
ServiceErrors == Chains(MaxChain)

\* an invalid-parameters error and a rejected request, each with its reason
ErrSamples ==
    {<<"ErrInvalidParameters", "reason">>, <<"ErrRequestFailed", "reason">>}

\* errors.Is(err, target): some error of the chain is the target
ErrorsIs(err, target) == \E i \in 1..Len(err) : err[i] = target

\* errors.Unwrap(err); nil for nil and for an error that wraps nothing
ErrorsUnwrap(err) == IF err = <<>> THEN <<>> ELSE Tail(err)

\* the cause taken one level down only
ShallowCause(err) ==
    IF ErrorsUnwrap(err) = <<>> THEN <<>> ELSE <<Head(ErrorsUnwrap(err))>>

\* cause := errors.Unwrap(err)
\* for errors.Unwrap(cause) != nil { cause = errors.Unwrap(cause) }
RECURSIVE Deepen(_)
Deepen(cause) ==
    IF ErrorsUnwrap(cause) # <<>> THEN Deepen(ErrorsUnwrap(cause)) ELSE cause

RootCause(err) == Deepen(ErrorsUnwrap(err))

\* a GetArtifact that asks the build service again when it fails, up to
\* DefaultRetries requests
GetArtifactRetries(c, answers, errs) ==
    /\ call[c].pc = "idle"
    /\ \/ \E id \in answers :
            call' = [call EXCEPT ![c] = [@ EXCEPT !.pc = "stat", !.art = id,
                                                   !.nbuild = @ + 1]]
       \/ \E err \in errs :
            call' = [call EXCEPT ![c] =
                IF call[c].nbuild + 1 < DefaultRetries
                THEN [@ EXCEPT !.nbuild = @ + 1]
                ELSE IF ~ErrorsIs(err, "ErrInvalidParameters")
                THEN [@ EXCEPT !.pc = "done", !.ret = "ErrBuild",
                               !.srvErr = err, !.cause = err,
                               !.nbuild = @ + 1]
                ELSE [@ EXCEPT !.pc = "done", !.ret = "ErrInvalidParameters",
                               !.srvErr = err, !.cause = RootCause(err),
                               !.nbuild = @ + 1]]
    /\ UNCHANGED <<fsVars, retries, bgTouch, bgPrune, altered, pruneVars>>

\* Provider.GetArtifact: one p.buildSrv.Build call (nbuild counts them); the
\* build service answers with an artifact or an error; an error that is
\* ErrInvalidParameters is reported as such with its root cause, any other
\* as ErrBuild with the error itself as cause
GetArtifact(c, answers, errs) ==
    /\ call[c].pc = "idle"
    /\ \/ \E id \in answers :
            call' = [call EXCEPT ![c] = [@ EXCEPT !.pc = "stat", !.art = id,
                                                   !.nbuild = @ + 1]]
       \/ \E err \in errs :
            call' = [call EXCEPT ![c] =
                IF ~ErrorsIs(err, "ErrInvalidParameters")
                THEN [@ EXCEPT !.pc = "done", !.ret = "ErrBuild",
                               !.srvErr = err, !.cause = err,
                               !.nbuild = @ + 1]
                ELSE [@ EXCEPT !.pc = "done", !.ret = "ErrInvalidParameters",
                               !.srvErr = err, !.cause = RootCause(err),
                               !.nbuild = @ + 1]]
    /\ UNCHANGED <<fsVars, retries, bgTouch, bgPrune, altered, pruneVars>>

\* actualChecksum == expectedChecksum
SameChecksum(content, expected) == Digest(content) = expected

\* a check that takes every stat error for "not found"
IsNotExistAny(err) == err # "nil"

\* os.IsNotExist(err)
IsNotExist(err) == err = "notexist"

\* os.Stat(binPath) and the two checks of its error: the binary is there
\* (on to validateChecksum), an error other than not-exist (ErrBinary), or
\* the binary is missing (on to MkdirAll)
Stat(c) ==
    /\ call[c].pc = "stat"
    /\ \E statFails \in BOOLEAN :
         LET err == IF statFails THEN "other"
                    ELSE IF PathAbsent(call[c].art) THEN "notexist"
                    ELSE "nil"
         IN IF err = "nil"
            THEN call' = [call EXCEPT
                     ![c].pc = "vopen",
                     ![c].found =
                         IF SameChecksum(PathContent(call[c].art),
                                         Checksum(call[c].art))
                         THEN "valid" ELSE "stale"]
            ELSE IF ~IsNotExist(err)
            THEN \* an error other than not-exist
                 call' = [call EXCEPT ![c] =
                             [Fail(c, "ErrBinary") EXCEPT !.fault = "stat"]]
            ELSE call' = [call EXCEPT
                     ![c].pc = "mkdir",
                     ![c].found = IF err = "notexist" THEN "absent" ELSE @,
                     ![c].fault = IF err = "notexist" THEN @ ELSE "stat"]
    /\ UNCHANGED <<fsVars, retries, bgTouch, bgPrune, altered, pruneVars>>

\* a validation that reports the error of os.Open to the caller
ValidateOpenStrict(c) ==
    /\ call[c].pc = "vopen"
    /\ \E openFails \in BOOLEAN :
         IF openFails
         THEN call' = [call EXCEPT ![c] =
                          [Fail(c, "ErrBinary") EXCEPT !.fault = "open"]]
         ELSE IF PathAbsent(call[c].art)
         THEN call' = [call EXCEPT ![c].pc = "mkdir"]
         ELSE call' = [call EXCEPT ![c].pc = "vread",
                                   ![c].rino = link[call[c].art],
                                   ![c].rbuf = <<>>]
    /\ UNCHANGED <<fsVars, retries, bgTouch, bgPrune, altered, pruneVars>>

\* validateChecksum: os.Open(filePath)
ValidateOpen(c) ==
    /\ call[c].pc = "vopen"
    /\ \E openFails \in BOOLEAN :
         IF openFails \/ PathAbsent(call[c].art)
         THEN call' = [call EXCEPT ![c].pc = "mkdir",
                                   ![c].fault =
                                       IF openFails THEN "open" ELSE @]
         ELSE call' = [call EXCEPT ![c].pc = "vread",
                                   ![c].rino = link[call[c].art],
                                   ![c].rbuf = <<>>]
    /\ UNCHANGED <<fsVars, retries, bgTouch, bgPrune, altered, pruneVars>>

\* a cache hit that is reported as a fresh download
HitUncached(c) ==
    [call[c] EXCEPT !.pc = "done", !.ret = "ok", !.cached = FALSE,
                    !.path = call[c].art, !.sum = Checksum(call[c].art),
                    !.seen = PathContent(call[c].art),
                    !.absent = PathAbsent(call[c].art),
                    !.rino = 0, !.rbuf = <<>>]

\* the result of a cache hit
Hit(c) ==
    [call[c] EXCEPT !.pc = "done", !.ret = "ok", !.cached = TRUE,
                    !.path = call[c].art, !.sum = Checksum(call[c].art),
                    !.seen = PathContent(call[c].art),
                    !.absent = PathAbsent(call[c].art),
                    !.rino = 0, !.rbuf = <<>>]

\* a call of Touch in the calling goroutine: it gets on when Touch does
CallInline == hwm > 0 => pruneLock[OneProc] = 0

\* the go statement of `go p.pruner.Touch(binPath)`: it starts the
\* goroutine and goes on at once, whatever the goroutine has to wait for
GoStatement == TRUE

\* validateChecksum: io.Copy(hash, file) block by block, then the comparison
\* and, on a match, the return of the cached binary
ValidateRead(c) ==
    /\ call[c].pc = "vread"
    /\ UNCHANGED <<edir, plain, link, now, ncorrupt, retries, bgPrune, altered, pruneVars>>
    /\ IF Len(call[c].rbuf) < Len(data[call[c].rino])
       THEN /\ \E readFails \in BOOLEAN :
                 call' = [call EXCEPT ![c] =
                     IF readFails
                     THEN [@ EXCEPT !.pc = "mkdir", !.rino = 0, !.rbuf = <<>>,
                                    !.fault = "read"]
                     ELSE [@ EXCEPT !.rbuf =
                              Append(@, data[call[c].rino][Len(call[c].rbuf) + 1])]]
            /\ UNCHANGED bgTouch
       ELSE IF SameChecksum(call[c].rbuf, Checksum(call[c].art))
       THEN /\ GoStatement
            /\ call' = [call EXCEPT ![c] = Hit(c)]
            /\ bgTouch' = [bgTouch EXCEPT ![call[c].art] = @ + 1]
       ELSE /\ call' = [call EXCEPT ![c].pc = "mkdir", ![c].rino = 0,
                                    ![c].rbuf = <<>>]
            /\ UNCHANGED bgTouch
    /\ data' = Reclaim(data, link, call')
    /\ mtime' = ReclaimTime(mtime, link, call')

\* os.MkdirAll(artifactDir, 0o700)
MkdirAll(c) ==
    /\ call[c].pc = "mkdir"
    /\ \E mkdirFails \in BOOLEAN :
         IF mkdirFails
         THEN /\ call' = [call EXCEPT ![c] =
                             [Fail(c, "ErrBinary") EXCEPT !.fault = "mkdir"]]
              /\ UNCHANGED <<edir, plain>>
         ELSE /\ call' = [call EXCEPT ![c].pc = "open"]
              /\ edir' = edir \cup {call[c].art}
              /\ plain' = plain
    /\ UNCHANGED <<link, data, mtime, now, ncorrupt, retries, bgTouch,
                   bgPrune, altered, pruneVars>>

\* the content of a file that os.OpenFile opens when the file exists:
\* os.O_WRONLY|os.O_CREATE keeps what is there
OpenedContent(old) == old

\* os.OpenFile(binPath, os.O_WRONLY|os.O_CREATE, ...)
OpenFile(c) ==
    /\ call[c].pc = "open"
    /\ UNCHANGED <<edir, plain, now, ncorrupt, retries, bgTouch, bgPrune, altered,
                   pruneVars>>
    /\ \E openFails \in BOOLEAN :
         IF openFails \/ call[c].art \notin edir
         THEN /\ call' = [call EXCEPT ![c] =
                             [Fail(c, "ErrBinary") EXCEPT !.fault =
                                 IF openFails THEN "create" ELSE @]]
              /\ UNCHANGED <<link, data, mtime>>
         ELSE IF PathAbsent(call[c].art)
                 THEN /\ link' = [link EXCEPT ![call[c].art] = FreeInode]
                      /\ data' = [data EXCEPT ![FreeInode] = <<>>]
                      /\ mtime' = [mtime EXCEPT ![FreeInode] = now]
                      /\ call' = [call EXCEPT ![c].pc = "request",
                                   ![c].wino = FreeInode, ![c].woff = 0,
                                   ![c].ndl = @ + 1]
                 ELSE /\ link' = link
                      /\ data' = [data EXCEPT ![link[call[c].art]] =
                                     OpenedContent(@)]
                      /\ mtime' = mtime
                      /\ call' = [call EXCEPT ![c].pc = "request",
                                   ![c].wino = link[call[c].art],
                                   ![c].woff = 0, ![c].ndl = @ + 1]

\* the downloader's attempts on a source that fails its first n requests
\* (transport error or non-success status) and then answers 200 OK: made
\* one after the other until one succeeds or cap attempts were made.
\* k: the attempts made so far
RECURSIVE RetryLoop(_, _, _)
RetryLoop(k, n, cap) ==
    IF k >= cap THEN [ok |-> FALSE, att |-> k]
    ELSE IF k < n THEN RetryLoop(k + 1, n, cap)
    ELSE [ok |-> TRUE, att |-> k + 1]

\* the response bodies that failed requests leave open: a request that
\* fails in transport gets no response; one that is answered with a status
\* other than 200 OK returns before `defer resp.Body.Close()` is reached
LeftOpen(kind, failed) == IF kind = "status" THEN failed ELSE 0

\* downloader.download up to the response: the request and the check of the
\* status, repeated under the retry cap; the context may be cancelled
\* while a request is under way. n: the requests the source fails.
\* unclosed counts the response bodies obtained and not closed; the body
\* of the 200 OK response is open while it is copied
DownloadRequest(c, n) ==
    /\ call[c].pc = "request"
    /\ \E kind \in {"transport", "status"}, bodyOk \in BOOLEAN,
          cancelled \in BOOLEAN :
         LET r == RetryLoop(0, n, retries.cap)
         IN call' = [call EXCEPT ![c] =
              IF cancelled
              THEN [@ EXCEPT !.pc = "dlend", !.dlerr = "cancel", !.att = 1]
              ELSE IF r.ok
              THEN [@ EXCEPT !.pc = "copy", !.att = r.att,
                             !.body = IF bodyOk THEN Body(call[c].art)
                                      ELSE BadBody(call[c].art),
                             !.unclosed = LeftOpen(kind, r.att - 1) + 1]
              ELSE [@ EXCEPT !.pc = "dlend", !.dlerr = kind, !.att = r.att,
                             !.unclosed = LeftOpen(kind, r.att)]]
    /\ UNCHANGED <<fsVars, retries, bgTouch, bgPrune, altered, pruneVars>>

\* download's check of the received content against expectedChecksum
Verify(body, expected) == SameChecksum(body, expected)

\* io.Copy(dest, resp.Body): one block written at the descriptor's offset,
\* or the transfer breaking off; after the last block the digest of the
\* received content is compared with the expected checksum
CopyBlock(c) ==
    /\ call[c].pc = "copy"
    /\ UNCHANGED <<edir, plain, link, now, ncorrupt, retries, bgTouch, bgPrune,
                   altered, pruneVars>>
    /\ \E outcome \in {"write", "copyerr", "cancel"} :
         IF outcome = "write"
         THEN LET last == call[c].woff + 1 = Len(call[c].body)
              IN /\ data' = [data EXCEPT ![call[c].wino] =
                        WriteAt(@, call[c].woff, call[c].body[call[c].woff + 1])]
                 /\ mtime' = [mtime EXCEPT ![call[c].wino] = now]
                 /\ call' = [call EXCEPT ![c].woff = @ + 1,
                        ![c].pc = IF last THEN "dlend" ELSE @,
                        ![c].unclosed = IF last THEN @ - 1 ELSE @,
                        ![c].dlerr =
                            IF last /\ ~Verify(call[c].body,
                                               Checksum(call[c].art))
                            THEN "mismatch" ELSE @]
         ELSE /\ call' = [call EXCEPT ![c].pc = "dlend", ![c].dlerr = outcome,
                                       ![c].unclosed = @ - 1]
              /\ UNCHANGED <<data, mtime>>

\* the result of a fresh download
Fetched(c) ==
    [call[c] EXCEPT !.pc = "done", !.ret = "ok", !.cached = FALSE,
                    !.path = call[c].art, !.sum = Checksum(call[c].art),
                    !.url = call[c].art,
                    !.seen = PathContent(call[c].art),
                    !.absent = PathAbsent(call[c].art),
                    !.wino = 0, !.woff = 0, !.att = 0, !.body = <<>>]

\* a check of the download's error that lets a cancellation pass
DownloadErrorDeaf(err) == err \notin {"nil", "cancel"}

\* a check of the download's error that lets a checksum mismatch pass
DownloadErrorLax(err) == err \notin {"nil", "mismatch"}

\* if err != nil, on what download returned
DownloadError(err) == err # "nil"

\* the rest of GetBinary after download returned: target.Close(), then
\* either os.RemoveAll(artifactDir) (its error dropped) and ErrDownload, or
\* `go p.pruner.Prune()` and the binary
Finish(c) ==
    /\ call[c].pc = "dlend"
    /\ UNCHANGED <<now, ncorrupt, retries, bgTouch, altered, pruneVars>>
    /\ IF DownloadError(call[c].dlerr)
       THEN /\ bgPrune' = bgPrune
            /\ \E removeFails \in BOOLEAN :
                 /\ call' = [call EXCEPT ![c] =
                       [Fail(c, "ErrDownload") EXCEPT
                           !.dlerr = call[c].dlerr,
                           !.fault = IF removeFails THEN "remove" ELSE @]]
                 /\ IF removeFails
                    THEN /\ UNCHANGED <<edir, plain, link>>
                         /\ data' = Reclaim(data, link, call')
                         /\ mtime' = ReclaimTime(mtime, link, call')
                    ELSE /\ edir' = edir \ {call[c].art}
                         /\ plain' = plain
                         /\ link' = [link EXCEPT ![call[c].art] = 0]
                         /\ data' = Reclaim(data, link', call')
                         /\ mtime' = ReclaimTime(mtime, link', call')
       ELSE /\ call' = [call EXCEPT ![c] = Fetched(c)]
            /\ bgPrune' = bgPrune + 1
            /\ UNCHANGED <<edir, plain, link, data, mtime>>

\* the GetBinary calls started so far, and those under way
Started == Cardinality({c \in Calls : call[c].pc # "idle"})
Running == {c \in Calls : call[c].pc \notin {"idle", "done"}}

\* a cached binary is altered from outside the program: a block changed,
\* the file cut short, or the file extended
Corrupt(id) ==
    /\ ncorrupt < MaxCorrupt
    /\ link[id] # 0
    /\ \E how \in {"change", "truncate", "extend"} :
         LET old == data[link[id]]
             new == IF how = "extend" THEN Append(old, 0)
                    ELSE IF old = <<>> THEN old
                    ELSE IF how = "change" THEN [old EXCEPT ![1] = 0]
                    ELSE SubSeq(old, 1, Len(old) - 1)
         IN /\ new # old
            /\ data' = [data EXCEPT ![link[id]] = new]
    /\ mtime' = [mtime EXCEPT ![link[id]] = now]
    /\ ncorrupt' = ncorrupt + 1
    /\ altered' = [altered EXCEPT ![id] =
           [at |-> Started, idle |-> Running = {},
            fetched |-> SameChecksum(data[link[id]], Checksum(id))]]
    /\ UNCHANGED <<edir, plain, link, now, retries, call, bgTouch, bgPrune, pruneVars>>

\* the requests a download source of the model fails before it answers
SrcFails == 0..MaxSrcFails
\* a source that answers at once and one that never answers in time
SrcExtremes == {0, MaxSrcFails}

\* the caller makes call c when its earlier calls have returned
InTurn(c) == \A b \in Calls : b < c => call[b].pc = "done"

NextProvider ==
    \/ \E c \in Calls : InTurn(c) /\ GetArtifact(c, Catalog, ErrSamples)
                         /\ UNCHANGED lockVars
    \/ \E c \in Calls : Stat(c) /\ UNCHANGED lockVars
    \/ \E c \in Calls : ValidateOpen(c) /\ UNCHANGED lockVars
    \/ \E c \in Calls : ValidateRead(c) /\ UNCHANGED lockVars
    \/ \E c \in Calls : MkdirAll(c) /\ UNCHANGED lockVars
    \/ \E c \in Calls : OpenFile(c) /\ UNCHANGED lockVars
    \/ \E c \in Calls, n \in SrcFails : DownloadRequest(c, n)
                                         /\ UNCHANGED lockVars
    \/ \E c \in Calls : CopyBlock(c) /\ UNCHANGED lockVars
    \/ \E c \in Calls : Finish(c) /\ UNCHANGED lockVars
    \/ \E id \in Catalog : Corrupt(id) /\ UNCHANGED lockVars

\* callers in several goroutines, all asking for the same artifact
NextRace ==
    \/ \E c \in Calls : GetArtifact(c, Contended, ErrSamples)
                         /\ UNCHANGED lockVars
    \/ \E c \in Calls : Stat(c) /\ UNCHANGED lockVars
    \/ \E c \in Calls : ValidateOpen(c) /\ UNCHANGED lockVars
    \/ \E c \in Calls : ValidateRead(c) /\ UNCHANGED lockVars
    \/ \E c \in Calls : MkdirAll(c) /\ UNCHANGED lockVars
    \/ \E c \in Calls : OpenFile(c) /\ UNCHANGED lockVars
    \/ \E c \in Calls, n \in SrcExtremes : DownloadRequest(c, n)
                                            /\ UNCHANGED lockVars
    \/ \E c \in Calls : CopyBlock(c) /\ UNCHANGED lockVars
    \/ \E c \in Calls : Finish(c) /\ UNCHANGED lockVars

\* `go p.pruner.Prune()` gets to run, as prune() call p
GoPrune(p) ==
    /\ bgPrune > 0
    /\ bgPrune' = bgPrune - 1
    /\ PruneBegin(p)
    /\ UNCHANGED <<retries, call, bgTouch, altered>>

\* one step of GetBinary call c after its build request
Step(c) ==
    \/ Stat(c)
    \/ ValidateOpen(c)
    \/ ValidateRead(c)
    \/ MkdirAll(c)
    \/ OpenFile(c)
    \/ \E n \in SrcExtremes : DownloadRequest(c, n)
    \/ CopyBlock(c)
    \/ Finish(c)

\* calls made one after the other with pruning enabled, while the touch
\* and prune goroutines they started run, wait or never get to run
NextBackground ==
    \/ \E c \in Calls : InTurn(c) /\ GetArtifact(c, Contended, ErrSamples)
                         /\ UNCHANGED lockVars
    \/ \E c \in Calls : Step(c) /\ UNCHANGED lockVars
    \/ \E id \in IDs : GoTouch(id) /\ UNCHANGED lockVars
    \/ \E p \in Pruners : GoPrune(p) /\ UNCHANGED lockVars
    \/ \E p \in Pruners : PruneDelete(p) /\ UNCHANGED <<lockVars, provVars>>

\* calls made one after the other to a build service that fails in every
\* way
NextResolve ==
    \/ \E c \in Calls : InTurn(c) /\ GetArtifact(c, Contended, ServiceErrors)
                         /\ UNCHANGED lockVars
    \/ \E c \in Calls : Stat(c) /\ UNCHANGED lockVars
    \/ \E c \in Calls : ValidateOpen(c) /\ UNCHANGED lockVars
    \/ \E c \in Calls : ValidateRead(c) /\ UNCHANGED lockVars
    \/ \E c \in Calls : MkdirAll(c) /\ UNCHANGED lockVars
    \/ \E c \in Calls : OpenFile(c) /\ UNCHANGED lockVars
    \/ \E c \in Calls, n \in SrcExtremes : DownloadRequest(c, n)
                                            /\ UNCHANGED lockVars
    \/ \E c \in Calls : CopyBlock(c) /\ UNCHANGED lockVars
    \/ \E c \in Calls : Finish(c) /\ UNCHANGED lockVars

\* no call made on a handle yet. op: "lock" or "unlock"; held: the handle
\* held the lock when the call began; released: an unlock call on the handle
\* has given the lock up at some time; locks: the tryLock calls that have
\* succeeded on the handle since it last held nothing (MaxRelock stands for
\* "or more"); undid: what locks was when the last unlock began
NoCall ==
    [op |-> "none", held |-> FALSE, released |-> FALSE, locks |-> 0,
     undid |-> 0]

\* lock handles as constructed, none of them used
InitLockIdle ==
    /\ backend = "posix"
    /\ hdir = [h \in Handles |-> 1]
    /\ fd = [h \in Handles |-> NoFd]
    /\ osLock = [d \in Dirs |-> 0]
    /\ lockRet = [h \in Handles |-> "none"]
    /\ leaked = [h \in Handles |-> FALSE]
    /\ lastCall = [h \in Handles |-> NoCall]
    /\ hproc = [h \in Handles |-> OneProc]
    /\ exited = {}

\* a cache directory left by earlier runs of the provider: some artifacts
\* of the catalog cached, each with the binary of its artifact
InitCacheInherited(ids) ==
    /\ InitCachePopulated
    /\ edir \subseteq ids
    /\ \A i \in Inodes : mtime[i] = 0

\* Config.DownloadConfig.Retries as the configurations of the model set it
RetriesChoices == {-1, 0, 1, 2}

\* NewProvider(config)
InitProviderConfigured ==
    /\ \E r \in RetriesChoices : retries = [cfg |-> r, cap |-> RetriesFor(r)]
    /\ call = [c \in Calls |-> IdleCall]
    /\ bgTouch = [id \in IDs |-> 0]
    /\ bgPrune = 0
    /\ altered = [id \in IDs |-> Unaltered]

\* a provider with the default configuration over an inherited cache
InitSequential ==
    InitLockIdle /\ InitCacheInherited(Catalog) /\ InitProvider /\ InitPruner

SpecProvider == InitSequential /\ [][NextProvider]_vars

InitRace ==
    InitLockIdle /\ InitCacheInherited(Contended) /\ InitProvider /\ InitPruner

SpecRace == InitRace /\ [][NextRace]_vars

InitResolve ==
    InitLockIdle /\ InitCacheInherited(Contended) /\ InitProvider /\ InitPruner

SpecResolve == InitResolve /\ [][NextResolve]_vars

\* a provider with a high-water-mark over an inherited cache
InitBackground ==
    /\ InitLockIdle /\ InitCacheInherited(Contended) /\ InitProvider
    /\ InitPrunerConfigured /\ hwm > 0

SpecBackground == InitBackground /\ [][NextBackground]_vars

\* a provider with a configured download over an empty cache
InitDownload ==
    InitLockIdle /\ InitCacheEmpty /\ InitProviderConfigured /\ InitPruner

SpecDownload == InitDownload /\ [][NextProvider]_vars

\* a cache directory that holds the binary of every artifact, no two of
\* them last used at the same time
InitCacheFull ==
    /\ InitCachePopulated
    /\ edir = IDs
    /\ \A i, j \in IDs : i # j => mtime[i] # mtime[j]

\* a provider whose earlier cache hits left touches that have not run yet
InitProviderHits ==
    /\ retries = [cfg |-> 0, cap |-> RetriesFor(0)]
    /\ call = [c \in Calls |-> IdleCall]
    /\ \E hit \in SUBSET IDs :
         /\ Cardinality(hit) <= MaxTouch
         /\ bgTouch = [id \in IDs |-> IF id \in hit THEN 1 ELSE 0]
    /\ bgPrune = 0
    /\ altered = [id \in IDs |-> Unaltered]

InitPrune ==
    InitLockIdle /\ InitCacheFull /\ InitProviderHits /\ InitPrunerConfigured

SpecPrune == InitPrune /\ [][NextPrune]_vars

\* NewPruner in several OS processes with the same configuration: every
\* prune() call of the model is made in a process of its own
InitPrunersApart ==
    /\ hwm \in HwmChoices
    /\ \E i \in IntervalChoices : pruneInterval = PruneIntervalFor(hwm, i)
    /\ procOf = [p \in Pruners |-> p]
    /\ lastPrune = [q \in Procs |-> ZeroTime]
    /\ pruneLock = [q \in Procs |-> 0]
    /\ pr = [p \in Pruners |-> IdlePrune]
    /\ passes = <<>>
    /\ touches = <<>>

\* prune() called in several processes that share the cache directory
NextProcesses ==
    \/ \E p \in Pruners : PruneBegin(p) /\ UNCHANGED <<lockVars, provVars>>
    \/ \E p \in Pruners : PruneDelete(p) /\ UNCHANGED <<lockVars, provVars>>
    \/ Tick /\ UNCHANGED <<lockVars, provVars>>

InitProcesses ==
    InitLockIdle /\ InitCacheFull /\ InitProvider /\ InitPrunersApart

SpecProcesses == InitProcesses /\ [][NextProcesses]_vars

\* a cache directory with a directory for every artifact, some of them
\* without a binary (a GetBinary whose os.OpenFile failed leaves one)
InitCacheBare ==
    /\ edir = IDs
    /\ plain \in SUBSET {LockName}
    /\ \E bare \in SUBSET IDs :
         /\ link = [id \in IDs |-> IF id \in bare THEN 0 ELSE id]
         /\ data = [i \in Inodes |->
                      IF i \in IDs \ bare THEN Body(i) ELSE <<>>]
    /\ mtime \in [Inodes -> Past]
    /\ \A i \in Inodes : (i \notin IDs \/ link[i] = 0) => mtime[i] = 0
    /\ \A i, j \in IDs : (i # j /\ link[i] # 0 /\ link[j] # 0) =>
                              mtime[i] # mtime[j]
    /\ now = NIDs
    /\ ncorrupt = 0

InitPruneFaults ==
    InitLockIdle /\ InitCacheBare /\ InitProvider /\ InitPrunerConfigured

\* prune() passes over a cache in which os.Stat and os.RemoveAll fail
SpecPruneFaults == InitPruneFaults /\ [][NextProcesses]_vars

\* a Config.HighWaterMark below zero (the field is an int64 and NewProvider
\* hands it to NewPruner as it is)
NegativeMark == -1

\* NewPruner with a high-water-mark that is not positive
InitPrunerNonPositive ==
    /\ hwm \in {NegativeMark, 0}
    /\ \E i \in IntervalChoices : pruneInterval = PruneIntervalFor(hwm, i)
    /\ procOf = [p \in Pruners |-> OneProc]
    /\ lastPrune = [q \in Procs |-> ZeroTime]
    /\ pruneLock = [q \in Procs |-> 0]
    /\ pr = [p \in Pruners |-> IdlePrune]
    /\ passes = <<>>
    /\ touches = <<>>

InitPruneNonPositive ==
    InitLockIdle /\ InitCacheBare /\ InitProvider /\ InitPrunerNonPositive

\* prune() calls of a pruner whose high-water-mark is not positive
SpecPruneNonPositive == InitPruneNonPositive /\ [][NextProcesses]_vars

(***************************************************************************)
(* Directory lock                                                          *)
(***************************************************************************)

\* newFileLock: a handle on its directory's lock file, holding nothing
InitLock ==
    /\ backend \in {"posix", "windows"}
    /\ hdir \in [Handles -> Dirs \cup {MissingDir, NulPath}]
    /\ fd = [h \in Handles |-> NoFd]
    /\ osLock = [d \in Dirs |-> 0]
    /\ lockRet = [h \in Handles |-> "none"]
    /\ leaked = [h \in Handles |-> FALSE]
    /\ lastCall = [h \in Handles |-> NoCall]
    /\ hproc = [h \in Handles |-> OneProc]
    /\ exited = {}

\* a handle that takes every call for its first: it never finds its
\* descriptor open
NeverOpen(h) == FALSE

\* m.fd != -1 / m.handle != syscall.InvalidHandle
AlreadyOpen(h) == fd[h] # NoFd

\* syscall.UTF16PtrFromString(m.lockFile), Windows only: fails with EINVAL
\* for a path that holds a NUL byte
EncodePath(h) == backend = "windows" => hdir[h] # NulPath

\* syscall.Open(lockFile, O_RDWR|O_CREAT) / syscall.CreateFile(OPEN_ALWAYS):
\* the lock file is created when missing, so opening fails only when its
\* directory cannot be reached
OpenLockFile(h) == hdir[h] \in Dirs

\* a lock request that is granted whether or not the lock is owned, as a
\* shared (LOCK_SH) request would be among shared owners
OsTryLockShared(d) == d \in Dirs

\* one lock for every directory, as a lock file outside the directory
\* would be
OsTryLockGlobal(d) == \A e \in Dirs : osLock[e] = 0

\* syscall.Flock(fd, LOCK_EX|LOCK_NB) / LockFile(handle, 0, 0, 1, 0): the OS
\* grants the lock iff no open descriptor owns it; otherwise it fails at
\* once with EWOULDBLOCK / ERROR_LOCK_VIOLATION (errnoLocked, 33)
OsTryLock(d) == osLock[d] = 0

\* what a failed lock attempt does with the descriptor it opened: fileLock
\* closes it (syscall.Close(handle)), dirLock returns without closing it
ClosesOnFailure == backend = "windows"

\* what lock returns on handle h in the present state under backend bk
LockResult(bk, h) ==
    IF AlreadyOpen(h) THEN "nil"
    ELSE IF bk = "windows" /\ hdir[h] = NulPath THEN "EINVAL"
    ELSE IF ~OpenLockFile(h) THEN "errLockFailed"
    ELSE IF OsTryLock(hdir[h]) THEN "nil"
    ELSE "errLocked"

Relocked(n) == IF n < MaxRelock THEN n + 1 ELSE MaxRelock

\* dirLock.lock / fileLock.lock (tryLock in the tests)
Lock(h) ==
    /\ lastCall' = [lastCall EXCEPT ![h] =
                        [op |-> "lock", held |-> fd[h] # NoFd,
                         released |-> @.released,
                         locks |-> IF LockResult(backend, h) = "nil"
                                   THEN Relocked(@.locks) ELSE @.locks,
                         undid |-> 0]]
    /\ IF AlreadyOpen(h)
       THEN \* file open, assume already locked
            /\ lockRet' = [lockRet EXCEPT ![h] = "nil"]
            /\ UNCHANGED <<backend, hdir, hproc, exited, fd, osLock, leaked>>
       ELSE IF ~EncodePath(h)
       THEN \* the encoding error is returned as it is (EINVAL), not wrapped
            \* in errLockFailed: "TODO return a typed error"
            /\ lockRet' = [lockRet EXCEPT ![h] = "EINVAL"]
            /\ UNCHANGED <<backend, hdir, hproc, exited, fd, osLock, leaked>>
       ELSE IF ~OpenLockFile(h)
       THEN /\ lockRet' = [lockRet EXCEPT ![h] = "errLockFailed"]
            /\ UNCHANGED <<backend, hdir, hproc, exited, fd, osLock, leaked>>
       ELSE IF OsTryLock(hdir[h])
       THEN /\ fd' = [fd EXCEPT ![h] = h]
            /\ osLock' = [osLock EXCEPT ![hdir[h]] = h]
            /\ lockRet' = [lockRet EXCEPT ![h] = "nil"]
            /\ UNCHANGED <<backend, hdir, hproc, exited, leaked>>
       ELSE /\ lockRet' = [lockRet EXCEPT ![h] = "errLocked"]
            /\ leaked' = [leaked EXCEPT ![h] = @ \/ ~ClosesOnFailure]
            /\ UNCHANGED <<backend, hdir, hproc, exited, fd, osLock>>

\* an unlock that resets the handle and leaves its descriptor open: the OS
\* lock stays with the descriptor
UnlockKeepsOpen(h) ==
    /\ lastCall' = [lastCall EXCEPT ![h] =
                        [op |-> "unlock", held |-> fd[h] # NoFd,
                         released |-> @.released \/ fd[h] # NoFd,
                         locks |-> 0, undid |-> @.locks]]
    /\ IF fd[h] = NoFd
       THEN /\ lockRet' = [lockRet EXCEPT ![h] = "nil"]
            /\ UNCHANGED <<backend, hdir, hproc, exited, fd, osLock, leaked>>
       ELSE /\ fd' = [fd EXCEPT ![h] = NoFd]
            /\ lockRet' = [lockRet EXCEPT ![h] = "nil"]
            /\ UNCHANGED <<backend, hdir, hproc, exited, osLock, leaked>>

\* a lock that counts its holder's tryLock calls and is given up by the
\* unlock that matches the first of them
UnlockCounted(h) ==
    IF lastCall[h].locks > 1
    THEN /\ lastCall' = [lastCall EXCEPT ![h] =
                            [op |-> "unlock", held |-> fd[h] # NoFd,
                             released |-> @.released,
                             locks |-> @.locks - 1, undid |-> @.locks]]
         /\ lockRet' = [lockRet EXCEPT ![h] = "nil"]
         /\ UNCHANGED <<backend, hdir, hproc, exited, fd, osLock, leaked>>
    ELSE /\ lastCall' = [lastCall EXCEPT ![h] =
                            [op |-> "unlock", held |-> fd[h] # NoFd,
                             released |-> @.released \/ fd[h] # NoFd,
                             locks |-> 0, undid |-> @.locks]]
         /\ IF fd[h] = NoFd
            THEN /\ lockRet' = [lockRet EXCEPT ![h] = "nil"]
                 /\ UNCHANGED <<backend, hdir, hproc, exited, fd, osLock,
                                leaked>>
            ELSE /\ fd' = [fd EXCEPT ![h] = NoFd]
                 /\ osLock' = [d \in Dirs |->
                                 IF osLock[d] = fd[h] THEN 0 ELSE osLock[d]]
                 /\ \E unlockFails \in BOOLEAN :
                      lockRet' = [lockRet EXCEPT ![h] =
                          IF unlockFails THEN "errUnLockFailed" ELSE "nil"]
                 /\ UNCHANGED <<backend, hdir, hproc, exited, leaked>>

\* an unlock that returns on the failure of the OS call before it closes
\* the descriptor and resets the handle
UnlockReturnsEarly(h) ==
    /\ lastCall' = [lastCall EXCEPT ![h] =
                        [op |-> "unlock", held |-> fd[h] # NoFd,
                         released |-> @.released \/ fd[h] # NoFd,
                         locks |-> 0, undid |-> @.locks]]
    /\ IF fd[h] = NoFd
       THEN /\ lockRet' = [lockRet EXCEPT ![h] = "nil"]
            /\ UNCHANGED <<backend, hdir, hproc, exited, fd, osLock, leaked>>
       ELSE \E unlockFails \in BOOLEAN :
              IF unlockFails
              THEN /\ lockRet' = [lockRet EXCEPT ![h] = "errUnLockFailed"]
                   /\ UNCHANGED <<backend, hdir, hproc, exited, fd, osLock,
                                  leaked>>
              ELSE /\ fd' = [fd EXCEPT ![h] = NoFd]
                   /\ osLock' = [d \in Dirs |->
                                   IF osLock[d] = fd[h] THEN 0 ELSE osLock[d]]
                   /\ lockRet' = [lockRet EXCEPT ![h] = "nil"]
                   /\ UNCHANGED <<backend, hdir, hproc, exited, leaked>>

\* dirLock.unlock / fileLock.unlock: syscall.Flock(LOCK_UN) / UnlockFile may
\* fail (errUnLockFailed); either way the deferred close resets the handle
\* and, closing the descriptor, drops the OS lock it owned
Unlock(h) ==
    /\ lastCall' = [lastCall EXCEPT ![h] =
                        [op |-> "unlock", held |-> fd[h] # NoFd,
                         released |-> @.released \/ fd[h] # NoFd,
                         locks |-> 0, undid |-> @.locks]]
    /\ IF fd[h] = NoFd
       THEN \* if file is not open, assume already unlocked
            /\ lockRet' = [lockRet EXCEPT ![h] = "nil"]
            /\ UNCHANGED <<backend, hdir, hproc, exited, fd, osLock, leaked>>
       ELSE /\ fd' = [fd EXCEPT ![h] = NoFd]
            /\ osLock' = [d \in Dirs |->
                            IF osLock[d] = fd[h] THEN 0 ELSE osLock[d]]
            /\ \E unlockFails \in BOOLEAN :
                 lockRet' = [lockRet EXCEPT ![h] =
                     IF unlockFails THEN "errUnLockFailed" ELSE "nil"]
            /\ UNCHANGED <<backend, hdir, hproc, exited, leaked>>

\* a process that terminates and leaves its locks to a lock that lives in
\* the file system, not in the descriptors
ExitKeepsLocks(q) ==
    /\ q \notin exited
    /\ exited' = exited \cup {q}
    /\ UNCHANGED <<backend, hdir, hproc, fd, osLock, leaked, lockRet, lastCall>>

\* the process q terminates without unlocking: the OS closes its
\* descriptors, and a lock goes with the descriptor that owns it ("until
\* this process exits or unlocks it")
Exit(q) ==
    /\ q \notin exited
    /\ exited' = exited \cup {q}
    /\ fd' = [h \in Handles |-> IF hproc[h] = q THEN NoFd ELSE fd[h]]
    /\ osLock' = [d \in Dirs |->
                    IF osLock[d] # 0 /\ hproc[osLock[d]] = q
                    THEN 0 ELSE osLock[d]]
    /\ leaked' = [h \in Handles |-> IF hproc[h] = q THEN FALSE ELSE leaked[h]]
    /\ UNCHANGED <<backend, hdir, hproc, lockRet, lastCall>>

\* handles in several processes, on directories that exist
InitLockProcs ==
    /\ backend \in {"posix", "windows"}
    /\ hdir \in [Handles -> Dirs]
    /\ fd = [h \in Handles |-> NoFd]
    /\ osLock = [d \in Dirs |-> 0]
    /\ lockRet = [h \in Handles |-> "none"]
    /\ leaked = [h \in Handles |-> FALSE]
    /\ lastCall = [h \in Handles |-> NoCall]
    /\ hproc \in [Handles -> Procs]
    /\ exited = {}

\* lock / unlock calls in processes that run, and processes terminating
NextLockExit ==
    \/ \E h \in Handles : hproc[h] \notin exited /\ Lock(h)
                            /\ UNCHANGED <<fsVars, provVars, pruneVars>>
    \/ \E h \in Handles : hproc[h] \notin exited /\ Unlock(h)
                            /\ UNCHANGED <<fsVars, provVars, pruneVars>>
    \/ \E q \in Procs : Exit(q) /\ UNCHANGED <<fsVars, provVars, pruneVars>>

InitLockExit == InitLockProcs /\ InitCacheEmpty /\ InitProvider /\ InitPruner

SpecLockExit == InitLockExit /\ [][NextLockExit]_vars

NextLock ==
    \/ \E h \in Handles : Lock(h) /\ UNCHANGED <<fsVars, provVars, pruneVars>>
    \/ \E h \in Handles : Unlock(h) /\ UNCHANGED <<fsVars, provVars, pruneVars>>

InitLocks == InitLock /\ InitCacheEmpty /\ InitProvider /\ InitPruner

SpecLock == InitLocks /\ [][NextLock]_vars

(***************************************************************************)
(* Claims about the directory lock                                         *)
(***************************************************************************)

Holds(h) == fd[h] # NoFd

\* another handle of the same directory holds the lock
HeldByOther(b) ==
    \E a \in Handles : a # b /\ hdir[a] = hdir[b] /\ Holds(a)

DirFree(b) == \A a \in Handles : hdir[a] = hdir[b] => ~Holds(a)

C13_Idempotent ==
    /\ [][\A h \in Handles :
            (Lock(h) /\ Holds(h)) =>
                (lockRet'[h] = "nil" /\ UNCHANGED <<fd, osLock, leaked>>)]_vars
    /\ [][\A h \in Handles :
            (Unlock(h) /\ ~Holds(h)) =>
                (lockRet'[h] = "nil" /\ UNCHANGED <<fd, osLock, leaked>>)]_vars

\* C13 witness: the last call on h was a tryLock made while h held the
\* lock, and the last call on g was an unlock made while g held nothing and
\* h held the lock of the same directory, which h still holds
C13_Witness ==
    \E h, g \in Handles :
        /\ h # g /\ hdir[h] = hdir[g]
        /\ lastCall[h].op = "lock" /\ lastCall[h].held
        /\ lockRet[h] = "nil" /\ Holds(h) /\ osLock[hdir[h]] = h
        /\ lastCall[g].op = "unlock" /\ ~lastCall[g].held
        /\ lockRet[g] = "nil" /\ ~Holds(g)

\* C14: a tryLock on a handle whose lock file cannot be opened or created
\* returns errLockFailed and leaves the handle not holding, and errLocked is
\* returned only while another handle of the directory holds the lock.
C14_LockFailed ==
    /\ [][\A h \in Handles :
            (Lock(h) /\ ~Holds(h) /\ hdir[h] \notin Dirs) =>
                (lockRet'[h] = "errLockFailed" /\ ~Holds(h)')]_vars
    /\ [][\A h \in Handles :
            (Lock(h) /\ lockRet'[h] = "errLocked") => HeldByOther(h)]_vars

\* the results the lock contract allows for tryLock
LockOutcomes == {"nil", "errLocked", "errLockFailed"}

\* C15: tryLock never waits: a tryLock can be made and completes in every
\* state, whoever holds the lock, and it returns success, errLocked or
\* errLockFailed.
C15_NonBlocking ==
    /\ [](\A h \in Handles : ENABLED Lock(h))
    /\ [][\A h \in Handles : Lock(h) => lockRet'[h] \in LockOutcomes]_vars

\* C16: lock and unlock calls on a handle of one directory change neither
\* the descriptor of a handle of another directory nor the lock of another
\* directory, and the result of a tryLock is decided by its own directory
\* alone: errLocked only while a handle of that directory holds, success
\* whenever the directory exists and none does, whatever is locked elsewhere.
C16_Isolation ==
    /\ [][\A h \in Handles :
            (Lock(h) \/ Unlock(h)) =>
                /\ \A g \in Handles : hdir[g] # hdir[h] => fd'[g] = fd[g]
                /\ \A d \in Dirs : d # hdir[h] => osLock'[d] = osLock[d]]_vars
    /\ [][\A b \in Handles :
            (Lock(b) /\ lockRet'[b] = "errLocked") => ~DirFree(b)]_vars
    /\ [][\A b \in Handles :
            (Lock(b) /\ hdir[b] \in Dirs /\ DirFree(b)) => Holds(b)']_vars

\* C16 witness: a holds the lock of one directory and the tryLock on b, a
\* handle of another directory, succeeded after it
C16_Witness ==
    \E a, b \in Handles :
        /\ hdir[a] \in Dirs /\ hdir[b] \in Dirs /\ hdir[a] # hdir[b]
        /\ Holds(a) /\ Holds(b)
        /\ lastCall[b].op = "lock" /\ ~lastCall[b].held /\ lockRet[b] = "nil"

(***************************************************************************)
(* GetBinary: cache round trip, self-healing, failed downloads, races      *)
(***************************************************************************)
Done(c) == call[c].pc = "done"
Ok(c) == Done(c) /\ call[c].ret = "ok"

\* no call made after a and before b went for artifact x
NoneBetween(a, b, x) ==
    \A m \in Calls : (a < m /\ m < b) => call[m].art # x

\* the file at the path a successful call returned held, when the call
\* returned, the binary the returned checksum stands for
Intact(c) == ~call[c].absent /\ SameChecksum(call[c].seen, call[c].sum)

\* C2: cache round trip. A GetBinary that finds no file for the artifact
\* its build resolves to and succeeds has made one download and returns
\* Cached=false; the next GetBinary resolving to the same artifact, with
\* the file not altered from outside since the first call began and none
\* of its own I/O operations failing, returns Cached=true with the same
\* Path and Checksum and makes no download.
C2_RoundTrip ==
    \A a, b \in Calls :
        (Ok(a) /\ call[a].found = "absent") =>
            /\ ~call[a].cached
            /\ call[a].ndl = 1
            /\ ( /\ a < b
                 /\ Done(b)
                 /\ call[b].art = call[a].art
                 /\ NoneBetween(a, b, call[a].art)
                 /\ altered[call[a].art].at < a
                 /\ call[b].fault = "none" )
               => /\ call[b].ret = "ok"
                  /\ call[b].cached
                  /\ call[b].ndl = 0
                  /\ call[b].path = call[a].path
                  /\ call[b].sum = call[a].sum

C2_Witness ==
    \E a, b \in Calls :
        /\ a < b /\ Ok(a) /\ Ok(b)
        /\ call[a].found = "absent" /\ ~call[a].cached /\ call[a].ndl = 1
        /\ call[b].art = call[a].art /\ call[b].cached /\ call[b].ndl = 0
        /\ call[b].found = "valid" /\ altered[call[a].art].at < a

\* the calls that are the next GetBinary for artifact x after its file was
\* altered from outside while it held the fetched binary and no call ran
NextAfterAlteration(c, x) ==
    /\ Done(c)
    /\ call[c].art = x
    /\ altered[x].idle
    /\ altered[x].fetched
    /\ altered[x].at < c
    /\ \A m \in Calls : (altered[x].at < m /\ m < c) => call[m].art # x

\* C3: self-healing. The next GetBinary for an artifact whose cached
\* binary was altered after a successful fetch (changed, truncated or
\* extended) does not return Cached=true, downloads again, and when it
\* succeeds the file at Path has the digest Artifact.Checksum.
C3_SelfHeal ==
    \A c \in Calls, x \in IDs :
        (NextAfterAlteration(c, x) /\ call[c].fault = "none") =>
            /\ ~call[c].cached
            /\ call[c].ndl = 1
            /\ Ok(c) => Intact(c)

\* no GetBinary for the artifact of call c was begun after c
LastFor(c) ==
    \A b \in Calls : b > c => (call[b].pc = "idle" \/ call[b].art # call[c].art)

C5_NoPartialSuccess ==
    (\A b \in Calls : call[b].fault = "none") =>
        \A c \in Calls : Ok(c) => Intact(c)

\* C11: the download step reports success only for content that matches
\* the expected checksum. A GetBinary that returns success with Cached=false
\* returns the path of a file whose digest is Artifact.Checksum (the file
\* not altered from outside since the call began), and a download whose
\* body was received in full and does not match the checksum ends in
\* ErrDownload.
C11_VerifiedDownload ==
    \A c \in Calls :
        /\ (Ok(c) /\ ~call[c].cached /\ altered[call[c].art].at < c) =>
               Intact(c)
        /\ (Done(c) /\ call[c].dlerr = "mismatch") =>
               call[c].ret = "ErrDownload"

(***************************************************************************)
(* Pruner: order of eviction, the scenario, concurrency, cooldown          *)
(***************************************************************************)
\* the targets of the pass of prune() call p, as a set, and the place of an
\* entry in the order the pass tried to delete entries
TargetSet(p) == {pr[p].targets[i] : i \in 1..Len(pr[p].targets)}
Turn(p, id) == CHOOSE i \in 1..Len(pr[p].tried) : pr[p].tried[i] = id
Tried(p) == {pr[p].tried[i] : i \in 1..Len(pr[p].tried)}
Remaining(p) == {t \in TargetSet(p) : t.id \notin pr[p].deleted}

\* C6: a prune pass deletes entries oldest first: an entry is deleted only
\* after every target with an older recency marker was tried (deleted or
\* failed to delete) in the same pass; the entries it deleted are gone, its
\* running total is the size of the targets it did not delete, and it ends
\* only with the total at or below the mark or with every target tried.
C6_OldestFirst ==
    \A p \in Pruners :
        /\ \A t, u \in TargetSet(p) :
               (t.id \in pr[p].deleted /\ u.ts < t.ts) =>
                   (u.id \in Tried(p) /\ Turn(p, u.id) < Turn(p, t.id))
        /\ pr[p].deleted \subseteq Tried(p)
        /\ pr[p].deleted \cap edir = {}
        /\ pr[p].targets # <<>> => pr[p].cacheSize = SumSizes(Remaining(p))
        /\ pr[p].pc = "deleting" => pr[p].cacheSize > hwm
        /\ (pr[p].pc = "done" /\ pr[p].targets # <<>>) =>
               \/ pr[p].cacheSize <= hwm /\ pr[p].ret = "nil"
               \/ /\ Len(pr[p].tried) = Len(pr[p].targets)
                  /\ pr[p].ret = "ErrPruningCache"

C6_Witness ==
    \E p \in Pruners :
        /\ pr[p].pc = "done" /\ pr[p].why = "reached"
        /\ Cardinality(pr[p].deleted) = 2
        /\ Len(pr[p].tried) = 3
        /\ \E t \in TargetSet(p) : t.id \notin pr[p].deleted /\ t.id \in edir

\* the scenario of C7: HighWaterMark=1, three entries of sizes 10, 20 and 30
\* with increasing access times, a prune() that has returned, no deletion
\* of which failed
Scenario(p) ==
    /\ hwm = 1
    /\ pr[p].pc = "done"
    /\ Len(pr[p].targets) = 3
    /\ pr[p].targets[1].size = 10 /\ pr[p].targets[2].size = 20
    /\ pr[p].targets[3].size = 30
    /\ pr[p].targets[1].ts < pr[p].targets[2].ts
    /\ pr[p].targets[2].ts < pr[p].targets[3].ts
    /\ Tried(p) = pr[p].deleted

\* C7 (as amended): in the scenario prune() removes all three entries,
\* oldest first, which brings the total to 0 <= 1, and returns no error.
C7_Scenario ==
    \A p \in Pruners :
        Scenario(p) =>
            /\ pr[p].tried = <<pr[p].targets[1].id, pr[p].targets[2].id,
                               pr[p].targets[3].id>>
            /\ pr[p].deleted = {t.id : t \in TargetSet(p)}
            /\ \A t \in TargetSet(p) : t.id \notin edir
            /\ pr[p].cacheSize = 0
            /\ pr[p].ret = "nil"

C7_Witness ==
    \E p \in Pruners :
        Scenario(p) /\ edir = {} /\ pr[p].ret = "nil" /\ pr[p].why = "reached"

\* C7 (as claimed): in the scenario prune() removes the two oldest entries,
\* retains the newest and reports ErrPruningCache.
C7_Original ==
    \A p \in Pruners :
        Scenario(p) =>
            /\ pr[p].deleted = {pr[p].targets[1].id, pr[p].targets[2].id}
            /\ pr[p].targets[3].id \in edir
            /\ pr[p].ret = "ErrPruningCache"

\* C8: at most one eviction pass is under way at any time, and it holds
\* pruneLock; a prune() that finds the lock taken returns nil at once and
\* deletes nothing; no entry is deleted by two calls.
C8_OnePass ==
    /\ [](Cardinality({p \in Pruners : pr[p].pc = "deleting"}) <= 1)
    /\ [](\A p \in Pruners : pr[p].pc = "deleting" => pruneLock[procOf[p]] = p)
    /\ [](\A p, q \in Pruners :
            p # q => pr[p].deleted \cap pr[q].deleted = {})
    /\ [][\A p \in Pruners :
            (PruneBegin(p) /\ hwm # 0 /\ pruneLock[procOf[p]] # 0) =>
                /\ pr'[p].pc = "done" /\ pr'[p].ret = "nil"
                /\ pr'[p].deleted = {}
                /\ UNCHANGED <<edir, link, data, mtime, lastPrune, passes>>]_vars

C8_Witness ==
    \E p, q \in Pruners :
        /\ pr[p].pc = "deleting" /\ pr[p].deleted # {}
        /\ pr[q].pc = "done" /\ pr[q].why = "busy" /\ pr[q].ret = "nil"

\* C9: two eviction passes never start less than the prune interval apart,
\* the interval being the default when pruning is configured without one; a
\* prune() made inside the interval after a pass started returns nil and
\* neither enumerates nor deletes.
C9_Cooldown ==
    /\ [](\A i, j \in 1..Len(passes) :
            i < j => passes[j] - passes[i] >= pruneInterval)
    /\ [](hwm > 0 => pruneInterval >= 1)
    /\ [][\A p \in Pruners :
            ( /\ PruneBegin(p) /\ hwm # 0 /\ pruneLock[procOf[p]] = 0
              /\ lastPrune[procOf[p]] # ZeroTime
              /\ now - lastPrune[procOf[p]] < pruneInterval ) =>
                /\ pr'[p].pc = "done" /\ pr'[p].ret = "nil"
                /\ pr'[p].deleted = {} /\ pr'[p].targets = <<>>
                /\ UNCHANGED <<edir, link, data, mtime, lastPrune, passes>>]_vars

C9_Witness ==
    /\ Len(passes) = 2
    /\ pruneInterval = DefaultPruneInterval
    /\ \E p \in Pruners : pr[p].why = "cooldown" /\ pr[p].ret = "nil"

LastTouch(id) ==
    LET S == {i \in 1..Len(touches) : touches[i].id = id}
    IN IF S = {} THEN 0 ELSE CHOOSE i \in S : \A j \in S : j <= i

\* what the pass of prune() call p recorded for entry id
TargetOf(p, id) == CHOOSE t \in TargetSet(p) : t.id = id

\* x was last touched right before the pass of prune() call p began, y was
\* not touched since, and the pass found both
TouchedBefore(p, x, y) ==
    /\ x # y
    /\ LastTouch(x) > 0
    /\ touches[LastTouch(x)].pass + 1 = pr[p].pass
    /\ LastTouch(y) < LastTouch(x)
    /\ \E t, u \in TargetSet(p) : t.id = x /\ u.id = y

C19_Disabled ==
    /\ [](hwm = 0 =>
            /\ (\A q \in Procs : pruneLock[q] = 0) /\ passes = <<>>
            /\ \A p \in Pruners :
                 /\ pr[p].pc \in {"idle", "done"}
                 /\ pr[p].ret \in {"none", "nil"}
                 /\ pr[p].deleted = {} /\ pr[p].tried = <<>>)
    /\ [][hwm = 0 =>
            /\ UNCHANGED <<edir, link, data, mtime>>
            /\ \A p \in Pruners :
                 PruneBegin(p) => (pr'[p].pc = "done" /\ pr'[p].ret = "nil")]_vars

\* C19 witness: every prune() call has returned nil with pruning disabled,
\* over a cache that holds every binary, more bytes than any mark
C19_Witness ==
    /\ hwm = 0
    /\ \A p \in Pruners :
         pr[p].pc = "done" /\ pr[p].ret = "nil" /\ pr[p].why = "disabled"
    /\ edir = IDs
    /\ SumSizes(Enumerate) > 2 * BlockBytes + 5

(***************************************************************************)
(* GetArtifact: errors of the build service                                *)
(***************************************************************************)
\* the innermost error wrapped in err, nil when err wraps nothing
Innermost(err) == IF Len(err) > 1 THEN <<err[Len(err)]>> ELSE <<>>

\* call c ended on an error of the build service
BuildFailed(c) == Done(c) /\ call[c].srvErr # <<>>

\* C20: when the build service fails, the call returns ErrInvalidParameters
\* with the innermost wrapped error as cause if the service error is an
\* invalid-parameters error (at any depth), and ErrBuild with the service
\* error as cause otherwise, a rejected request included; it has probed no
\* file, created nothing and downloaded nothing, and the step that returns
\* the error leaves the cache directory as it was.
C20_ResolveErrors ==
    /\ [](\A c \in Calls :
            BuildFailed(c) =>
                /\ IF \E i \in 1..Len(call[c].srvErr) :
                          call[c].srvErr[i] = "ErrInvalidParameters"
                   THEN /\ call[c].ret = "ErrInvalidParameters"
                        /\ call[c].cause = Innermost(call[c].srvErr)
                   ELSE /\ call[c].ret = "ErrBuild"
                        /\ call[c].cause = call[c].srvErr
                /\ call[c].found = "none" /\ call[c].fault = "none"
                /\ call[c].ndl = 0 /\ call[c].art = 0 /\ call[c].path = 0
                /\ ~call[c].cached)
    /\ [][\A c \in Calls :
            (~BuildFailed(c) /\ BuildFailed(c)') =>
                UNCHANGED <<edir, link, data, mtime, bgTouch, bgPrune>>]_vars

\* C20 witness: a call ended in ErrInvalidParameters carrying the reason
\* that lay two levels below the service error, and another in ErrBuild
\* for a rejected request
C20_Witness ==
    \E a, b \in Calls :
        /\ BuildFailed(a) /\ call[a].ret = "ErrInvalidParameters"
        /\ Len(call[a].srvErr) = 3 /\ call[a].cause = <<"reason">>
        /\ call[a].srvErr[2] = "ErrInvalidParameters"
        /\ BuildFailed(b) /\ call[b].ret = "ErrBuild"
        /\ call[b].srvErr[1] = "ErrRequestFailed"

(***************************************************************************)
(* GetBinary and the goroutines it starts                                  *)
(***************************************************************************)
\* the errors GetBinary returns
ProviderErrors == {"ErrInvalidParameters", "ErrBuild", "ErrBinary", "ErrDownload"}

\* C17: pruning and touching neither hold up nor fail GetBinary. A call
\* under way can take its next step in every state, also while a pass holds
\* the prune mutex; no step of a call takes or waits for the mutex or
\* changes the pruner; and a call returns success or one of GetBinary's own
\* errors, never ErrPruningCache.
C17_Background ==
    /\ [](\A c \in Calls :
            /\ call[c].pc \notin {"idle", "done"} => ENABLED Step(c)
            /\ Done(c) => call[c].ret \in {"ok"} \cup ProviderErrors)
    /\ [][\A c \in Calls : Step(c) => UNCHANGED pruneVars]_vars

\* C17 witness: a call returned a cache hit and a call returned a fresh
\* binary while a pass held the prune mutex, the touch the hit started
\* still waiting
C17_Witness ==
    \E a, b \in Calls :
        /\ pruneLock[OneProc] # 0
        /\ Ok(a) /\ ~call[a].cached
        /\ Ok(b) /\ call[b].cached /\ bgTouch[call[b].art] > 0

(***************************************************************************)
(* GetBinary: the cache probe                                              *)
(***************************************************************************)
\* C21: a stat error other than not-found ends the call in ErrBinary: the
\* call has made no download and the step that returns the error leaves the
\* cache directory as it was (no directory created, no file opened); a stat
\* that finds no file is followed by the creation of the entry directory.
C21_StatError ==
    /\ [](\A c \in Calls :
            call[c].fault = "stat" =>
                /\ Done(c) /\ call[c].ret = "ErrBinary"
                /\ call[c].ndl = 0 /\ call[c].wino = 0)
    /\ [][\A c \in Calls :
            (call[c].fault # "stat" /\ call'[c].fault = "stat") =>
                UNCHANGED <<edir, link, data, mtime, bgTouch, bgPrune>>]_vars
    /\ [][\A c \in Calls :
            (Stat(c) /\ PathAbsent(call[c].art) /\ call'[c].fault # "stat") =>
                (call'[c].pc = "mkdir" /\ call'[c].found = "absent")]_vars

\* C21 witness: a call for an artifact that is not cached ended in
\* ErrBinary on a stat error and left no entry directory, and the next call
\* for it found no file and downloaded
C21_Witness ==
    \E a, b \in Calls :
        /\ a < b /\ Done(a) /\ call[a].fault = "stat" /\ call[a].ret = "ErrBinary"
        /\ call[b].art = call[a].art
        /\ Ok(b) /\ call[b].found = "absent" /\ call[b].ndl = 1
        /\ ~call[b].cached

(***************************************************************************)
(* Pruning in several processes                                            *)
(***************************************************************************)
\* prune() call p is between its enumeration and the end of its deletions
InPass(p) == pr[p].pc = "deleting"

\* C22: two OS processes that share one cache directory never run the
\* enumerate-and-delete sequence of prune at the same time.
C22_CrossProcess ==
    \A p, r \in Pruners :
        procOf[p] # procOf[r] => ~(InPass(p) /\ InPass(r))

(***************************************************************************)
(* GetBinary: cancellation                                                 *)
(***************************************************************************)
\* call c returns a fresh binary in this step
ReturnsFresh(c) == ~Done(c) /\ Ok(c)' /\ ~call'[c].cached

Alive(h) == hproc[h] \notin exited

C25_Equivalent ==
    [][\A h \in Handles :
         /\ Lock(h) =>
              /\ lockRet'[h] = LockResult(backend, h)
              /\ LockResult("posix", h) = LockResult("windows", h)
              /\ lockRet'[h] \in {"nil", "errLocked", "errLockFailed"}
              /\ Holds(h)' <=> (lockRet'[h] = "nil")
         /\ Unlock(h) => (lockRet'[h] \in {"nil", "errUnLockFailed"}
                           /\ ~Holds(h)')]_vars

(***************************************************************************)
(* GetBinary: concurrent calls, overwriting, entries in place              *)
(***************************************************************************)
\* call b ends in this step with a failed download and its cleanup
FailsDownload(b) ==
    /\ call[b].pc = "dlend"
    /\ Done(b)' /\ call'[b].ret = "ErrDownload"

\* C26: with GetBinary calls for one artifact running concurrently and one
\* of them failing its download, the path a successful call returned held
\* the binary when the call returned, and the cleanup of the failing call
\* leaves the file of a call that has succeeded where it is, with its
\* content.
C26_CleanupHarmless ==
    /\ [](\A a, b \in Calls :
            ( /\ a # b /\ Ok(a) /\ Done(b)
              /\ call[b].art = call[a].art /\ call[b].ret = "ErrDownload"
              /\ call[a].fault = "none" /\ call[b].fault = "none" ) =>
                Intact(a))
    /\ [][\A a, b \in Calls :
            ( /\ a # b /\ Ok(a) /\ call[b].art = call[a].art
              /\ FailsDownload(b) /\ ~PathAbsent(call[a].art) ) =>
                /\ call[a].art \in edir'
                /\ ~PathAbsent(call[a].art)'
                /\ PathContent(call[a].art)' = PathContent(call[a].art)]_vars

\* C27: after a GetBinary that took the miss path and returned success, the
\* file at Path holds the downloaded bytes and nothing else, same length
\* and same content, whatever the path held before the call (the file not
\* altered from outside since the call began).
C27_ExactBytes ==
    \A c \in Calls :
        (Ok(c) /\ ~call[c].cached /\ altered[call[c].art].at < c) =>
            /\ ~call[c].absent
            /\ Len(call[c].seen) = Len(Body(call[c].art))
            /\ call[c].seen = Body(call[c].art)

\* call c opens in this step the file it is going to write the download to
OpensForWriting(c) == call[c].pc = "open" /\ call'[c].pc = "request"

\* C28: an entry is not modified in place. The file a GetBinary opens for
\* its download is never the file of an entry that exists: a binary that is
\* replaced is deleted and created again, and every block is written into a
\* file the call created.
C28_NoInPlace ==
    [][\A c \in Calls :
         /\ OpensForWriting(c) =>
              call'[c].wino \notin {link[id] : id \in IDs}
         /\ (call[c].pc = "copy" /\ data' # data) =>
              call[c].found = "absent"]_vars

(***************************************************************************)
(* Pruner: failures within a pass                                          *)
(***************************************************************************)
\* the entry directories without a binary
Bare == {x \in edir : link[x] = 0}

\* the prune() call of p went through a pass and returned
Ended(p) ==
    pr[p].pc = "done" /\ pr[p].why \in {"below", "reached", "exhausted"}

\* the turns of the deletion loop of p in which os.RemoveAll failed
FailedRemovals(p) ==
    {i \in 1..Len(pr[p].tried) : pr[p].tried[i] \notin pr[p].deleted}

\* C29: a pass that ends with the total above the high-water-mark, and no
\* other, returns ErrPruningCache; the error joins one error for every stat
\* failure and every deletion failure of the pass, every candidate was
\* tried, and the entries whose deletion succeeded are and stay deleted.
C29_PartialKept ==
    /\ [](\A p \in Pruners :
            /\ Ended(p) =>
                 ((pr[p].cacheSize > hwm) <=> (pr[p].ret = "ErrPruningCache"))
            /\ (Ended(p) /\ pr[p].ret = "ErrPruningCache") =>
                 /\ pr[p].why = "exhausted"
                 /\ Len(pr[p].tried) = Len(pr[p].targets)
                 /\ pr[p].errs =
                      Cardinality(Bare) + Cardinality(FailedRemovals(p))
                 /\ \A x \in pr[p].deleted : x \notin edir /\ PathAbsent(x))
    /\ [][\A x \in IDs : x \notin edir => x \notin edir']_vars

\* C29 witness: a pass that met a stat failure, deleted an entry, failed to
\* delete another and returned ErrPruningCache
C29_Witness ==
    \E p \in Pruners :
        /\ Ended(p) /\ pr[p].ret = "ErrPruningCache"
        /\ Bare # {} /\ FailedRemovals(p) # {} /\ pr[p].deleted # {}
        /\ pr[p].errs >= 2 /\ pr[p].cacheSize > hwm

RECURSIVE BinaryBytes(_)
BinaryBytes(S) ==
    IF S = {} THEN 0
    ELSE LET x == CHOOSE y \in S : TRUE
         IN Size(link[x]) + BinaryBytes(S \ {x})

\* the prune() call of p goes through the enumeration in this step
Measures(p) ==
    /\ passes' # passes
    /\ pr'[p].pass = Len(passes')
    /\ pr'[p].why # "readdir"

\* C30: an entry whose stat fails is skipped. The enumeration goes on past
\* it: the total is the size of the binaries that could be measured, the
\* candidates are the entries that have one, every stat failure is kept as
\* an error, and when the total is above the mark the pass evicts; an entry
\* without a binary is never tried nor deleted.
C30_StatSkipped ==
    /\ [][\A p \in Pruners : Measures(p) =>
            /\ pr'[p].cacheSize = BinaryBytes(edir \ Bare)
            /\ pr'[p].errs = Cardinality(Bare)
            /\ IF pr'[p].cacheSize > hwm
               THEN /\ pr'[p].pc = "deleting"
                    /\ {pr'[p].targets[i].id : i \in 1..Len(pr'[p].targets)}
                          = edir \ Bare
               ELSE pr'[p].pc = "done" /\ pr'[p].ret = "nil"]_vars
    /\ [](\A p \in Pruners : \A x \in Bare :
            /\ x \notin pr[p].deleted
            /\ \A i \in 1..Len(pr[p].tried) : pr[p].tried[i] # x)

\* C30 witness: a pass that met a stat failure, found the total above the
\* mark and evicted down to it
C30_Witness ==
    \E p \in Pruners :
        /\ Ended(p) /\ pr[p].why = "reached" /\ pr[p].ret = "nil"
        /\ pr[p].errs > 0 /\ Bare # {} /\ pr[p].deleted # {}

C32_OneBuild ==
    /\ [](\A c \in Calls :
            call[c].nbuild = IF call[c].pc = "idle" THEN 0 ELSE 1)
    /\ [][\A c \in Calls :
            call'[c].nbuild # call[c].nbuild =>
                (call[c].pc = "idle" /\ call'[c].pc \in {"stat", "done"})]_vars

\* C32 witness: a call whose build request failed and a call that went on
\* to return a binary have each made one request
C32_Witness ==
    \E a, b \in Calls :
        /\ BuildFailed(a) /\ call[a].nbuild = 1
        /\ Ok(b) /\ call[b].nbuild = 1 /\ call[b].ndl = 1

\* call c is in validateChecksum
Validating(c) == call[c].pc \in {"vopen", "vread"}

\* C33: checksum verification raises no error. A step of validateChecksum
\* either goes on reading, or returns the cached binary, or, on a file
\* that cannot be opened or read as on one that does not match, hands over
\* to re-provisioning with nothing returned; and a call whose only failed
\* I/O operation was the open or a read of the validation ends as one that
\* found a mismatch does, in success with a fresh download or in
\* ErrDownload.
C33_VerifyNoError ==
    /\ [][\A c \in Calls :
            (Validating(c) /\ call'[c] # call[c]) =>
                /\ call'[c].pc \in {"vread", "mkdir", "done"}
                /\ call'[c].pc = "done" =>
                     (call'[c].ret = "ok" /\ call'[c].cached)
                /\ call'[c].pc # "done" => call'[c].ret = "none"
                /\ call'[c].fault \in {"open", "read"} =>
                     (call'[c].pc = "mkdir" /\ call'[c].ndl = 0)]_vars
    /\ [](\A c \in Calls :
            (Done(c) /\ call[c].fault \in {"open", "read"}) =>
                /\ call[c].ret \in {"ok", "ErrDownload"}
                /\ call[c].ndl = 1
                /\ call[c].ret = "ok" => ~call[c].cached)

\* C33 witness: a call found the file, could not read it, downloaded the
\* binary and returned it; another could not open it and did the same
C33_Witness ==
    \E a, b \in Calls :
        /\ Ok(a) /\ call[a].fault = "read" /\ call[a].found = "valid"
        /\ ~call[a].cached /\ call[a].ndl = 1
        /\ Ok(b) /\ call[b].fault = "open" /\ ~call[b].cached

(***************************************************************************)
(* Pruner: how much a pass deletes, when and what                          *)
(***************************************************************************)
\* the target of the last turn the deletion loop of p has made
LastTried(p) == pr[p].targets[pr[p].idx - 1]

\* C34: a pass deletes no more than needed. A pass that measures a total at
\* or below the high-water-mark deletes nothing; the deletion loop runs
\* only while the running total is above the mark, so every entry is
\* deleted with the total before its deletion above the mark, one entry a
\* turn, and the pass that reaches the mark stops with the deletion that
\* got it there.
C34_NoMoreThanNeeded ==
    /\ [](\A p \in Pruners :
            /\ pr[p].why = "below" =>
                 /\ pr[p].cacheSize <= hwm
                 /\ pr[p].deleted = {} /\ pr[p].tried = <<>>
            /\ pr[p].pc = "deleting" => pr[p].cacheSize > hwm
            /\ pr[p].why = "reached" =>
                 /\ pr[p].pc = "done" /\ pr[p].cacheSize <= hwm
                 /\ LastTried(p).id \in pr[p].deleted
                 /\ pr[p].cacheSize + LastTried(p).size > hwm)
    /\ [][edir' # edir =>
            \E p \in Pruners :
                /\ pr[p].pc = "deleting" /\ pr[p].cacheSize > hwm
                /\ edir \ edir' = {pr[p].targets[pr[p].idx].id}
                /\ pr'[p].deleted = pr[p].deleted \cup (edir \ edir')
                /\ pr'[p].cacheSize =
                     pr[p].cacheSize - pr[p].targets[pr[p].idx].size]_vars

\* C34 witness: a pass reached the mark and stopped with candidates left,
\* which are still in the cache
C34_Witness ==
    \E p \in Pruners :
        /\ pr[p].pc = "done" /\ pr[p].why = "reached"
        /\ pr[p].deleted # {}
        /\ Len(pr[p].tried) < Len(pr[p].targets)
        /\ \A i \in (Len(pr[p].tried) + 1)..Len(pr[p].targets) :
             pr[p].targets[i].id \in edir

\* C35: a tryLock that returns errLocked or errLockFailed leaves the handle
\* as it was: not holding, no descriptor of the call left open, no lock
\* changed; and the unlock that follows on the handle changes no
\* descriptor and no lock.
C35_FailedLockFrame ==
    /\ [][\A h \in Handles :
            (Lock(h) /\ lockRet'[h] \in {"errLocked", "errLockFailed"}) =>
                /\ ~Holds(h)' /\ fd'[h] = fd[h]
                /\ leaked'[h] = leaked[h]
                /\ osLock' = osLock]_vars
    /\ [][\A h \in Handles :
            ( /\ Unlock(h) /\ lastCall[h].op = "lock"
              /\ lockRet[h] \in {"errLocked", "errLockFailed"} ) =>
                (lockRet'[h] = "nil" /\ UNCHANGED <<fd, osLock>>)]_vars

\* C36: the cooldown starts when a pass starts. A prune() call made less
\* than the interval after the start of the last pass of its pruner
\* returns nil without starting a pass, reading or deleting anything,
\* whether that pass is still under way, succeeded or failed.
C36_CooldownFromStart ==
    [][\A p \in Pruners :
         ( /\ PruneBegin(p)
           /\ \E i \in 1..Len(passes) :
                /\ \E r \in Pruners : procOf[r] = procOf[p] /\ pr[r].pass = i
                /\ now - passes[i] < pruneInterval ) =>
             /\ pr'[p].pc = "done" /\ pr'[p].ret = "nil"
             /\ pr'[p].why \in {"cooldown", "busy"}
             /\ pr'[p].pass = 0
             /\ UNCHANGED <<passes, lastPrune, pruneLock, edir, link>>]_vars

\* C36 witness: the one pass made so far failed (the directory could not be
\* read, or the mark was not reached), and a prune() call made after it
\* within the interval was held back by the cooldown
C36_Witness ==
    \E p, r \in Pruners :
        /\ p # r /\ Len(passes) = 1
        /\ pr[p].pc = "done" /\ pr[p].pass = 1
        /\ pr[p].ret = "ErrPruningCache"
        /\ pr[r].pc = "done" /\ pr[r].why = "cooldown" /\ pr[r].ret = "nil"
        /\ now - passes[1] < pruneInterval

\* C37: pruning is disabled for every high-water-mark that is not
\* positive. With such a mark no prune() call starts a pass, tries or
\* deletes an entry or returns an error, and the cache stays as it is.
C37_NonPositiveDisabled ==
    /\ [](hwm <= 0 =>
            /\ passes = <<>>
            /\ \A p \in Pruners :
                 /\ pr[p].ret \in {"none", "nil"}
                 /\ pr[p].deleted = {} /\ pr[p].tried = <<>>)
    /\ [][hwm <= 0 => UNCHANGED <<edir, link, data, mtime>>]_vars

\* C38: a pass deletes only entry directories whose binary it could stat.
\* Every name that leaves the cache directory during a pass is that of an
\* entry directory with a binary, the current target of the pass; the
\* targets are names listed in the cache directory; the files in it that
\* are not directories, the lock file among them, stay.
C38_OnlyEntries ==
    /\ [][\A x \in ReadDir :
            x \notin ReadDir' =>
                /\ IsDir(x) /\ link[x] # 0
                /\ \E p \in Pruners :
                     /\ pr[p].pc = "deleting"
                     /\ pr[p].targets[pr[p].idx].id = x]_vars
    /\ [][plain' = plain]_vars
    /\ [](\A p \in Pruners : \A i \in 1..Len(pr[p].targets) :
            pr[p].targets[i].id \in IDs)

\* C38 witness: a pass has deleted every entry it could, and the lock file
\* and an entry directory without a binary are what is left
C38_Witness ==
    \E p \in Pruners :
        /\ pr[p].pc = "done" /\ pr[p].deleted # {}
        /\ LockName \in plain
        /\ Bare # {} /\ edir = Bare
        /\ Len(pr[p].tried) = Len(pr[p].targets)

\* C39: unlock leaves the handle not holding whatever it returns. After an
\* unlock, one that returned errUnLockFailed included, the descriptor is
\* closed, the handle reset and the OS lock it owned free; the tryLock that
\* follows on the handle is an attempt of its own: it succeeds by taking
\* the OS lock, and is refused while another handle holds it.
C39_UnlockResets ==
    /\ [][\A h \in Handles :
            Unlock(h) =>
                /\ lockRet'[h] \in {"nil", "errUnLockFailed"}
                /\ fd'[h] = NoFd /\ ~Holds(h)'
                /\ \A d \in Dirs : osLock'[d] # h]_vars
    /\ [](\A h \in Handles : lockRet[h] = "errUnLockFailed" =>
            (lastCall[h].op = "unlock" /\ lastCall[h].held /\ ~Holds(h)))
    /\ [][\A h \in Handles :
            (Lock(h) /\ lockRet[h] = "errUnLockFailed") =>
                /\ ~lastCall'[h].held
                /\ lockRet'[h] = "nil" =>
                     (osLock[hdir[h]] = 0 /\ osLock'[hdir[h]] = h)
                /\ HeldByOther(h) =>
                     (lockRet'[h] = "errLocked" /\ ~Holds(h)')]_vars

\* C39 witness: the unlock of h failed while h held the lock, h holds
\* nothing, and another handle of the directory has taken the lock since
C39_Witness ==
    \E h, b \in Handles :
        /\ h # b /\ hdir[h] = hdir[b]
        /\ lockRet[h] = "errUnLockFailed" /\ lastCall[h].held
        /\ fd[h] = NoFd
        /\ Holds(b) /\ osLock[hdir[b]] = b
        /\ lastCall[b].op = "lock" /\ ~lastCall[b].held

(***************************************************************************)
(* Download: response bodies                                               *)
(***************************************************************************)
\* C40: every response a download attempt obtains has its body closed
\* before the attempt returns. While a call copies, the one body open is
\* that of the response it copies; once the download step has returned, no
\* response body of the call is open.
C40_BodiesClosed ==
    \A c \in Calls :
        /\ call[c].pc = "copy" => call[c].unclosed = 1
        /\ call[c].pc \in {"dlend", "done"} => call[c].unclosed = 0

====
